---- MODULE Spec2Model ----
(***************************************************************************)
(* A model of the mod-installation staging pipeline of mxbmm               *)
(* (src/src/app.rs, src/src/fs_ops.rs, src/src/model.rs).                  *)
(*                                                                         *)
(* Text is a sequence of one-character strings, so that trimming,          *)
(* lowercasing, suffix tests and path splitting are computed, not assumed. *)
(* A path is a sequence of components (each a text) counted from the       *)
(* filesystem root; it may hold ".." components, which the filesystem      *)
(* resolves as the operating system does.  The filesystem is a function    *)
(* from resolved paths to DIR or to a file's content.                      *)
(***************************************************************************)
EXTENDS Integers, Sequences, FiniteSets, TLC

(***************************************************************************)
(* Text (str / String)                                                     *)
(***************************************************************************)
UpperLetters ==
  <<"A","B","C","D","E","F","G","H","I","J","K","L","M",
    "N","O","P","Q","R","S","T","U","V","W","X","Y","Z">>

LowerLetters ==
  <<"a","b","c","d","e","f","g","h","i","j","k","l","m",
    "n","o","p","q","r","s","t","u","v","w","x","y","z">>

UpperSet == {UpperLetters[i] : i \in DOMAIN UpperLetters}

LowerOfUpper ==
  [c \in UpperSet |->
     LowerLetters[CHOOSE i \in DOMAIN UpperLetters : UpperLetters[i] = c]]

\* char::to_ascii_lowercase / to_lowercase on the ASCII letters
to_lowercase_char(c) == IF c \in UpperSet THEN LowerOfUpper[c] ELSE c

to_lowercase(s) == [i \in 1..Len(s) |-> to_lowercase_char(s[i])]

\* a comparison that minds the case
eq_with_case(a, b) == a = b

eq_ignore_ascii_case(a, b) == to_lowercase(a) = to_lowercase(b)

is_whitespace(c) == c \in {" ", "\t", "\n", "\r"}

RECURSIVE trim_start(_)
trim_start(s) ==
  IF s # <<>> /\ is_whitespace(Head(s)) THEN trim_start(Tail(s)) ELSE s

RECURSIVE trim_end(_)
trim_end(s) ==
  IF s # <<>> /\ is_whitespace(s[Len(s)])
  THEN trim_end(SubSeq(s, 1, Len(s) - 1))
  ELSE s

trim(s) == trim_end(trim_start(s))

ends_with(s, suffix) ==
  /\ Len(suffix) <= Len(s)
  /\ SubSeq(s, Len(s) - Len(suffix) + 1, Len(s)) = suffix

\* str::replace('\n', "\\n"): every newline becomes the two characters \ and n
RECURSIVE replace_newlines(_)
replace_newlines(s) ==
  IF s = <<>> THEN <<>>
  ELSE (IF Head(s) = "\n" THEN <<"\\", "n">> ELSE <<Head(s)>>)
         \o replace_newlines(Tail(s))

Digits == <<"0","1","2","3","4","5","6","7","8","9">>

\* format!("{}", n) of an unsigned integer
RECURSIVE DecStr(_)
DecStr(n) ==
  IF n < 10 THEN <<Digits[n + 1]>>
  ELSE DecStr(n \div 10) \o <<Digits[(n % 10) + 1]>>

(***************************************************************************)
(* Paths (std::path)                                                       *)
(***************************************************************************)
Sep == "/"
Dot == <<".">>
DotDot == <<".", ".">>

\* index of the first separator of s, 0 when there is none
FirstSep(s) ==
  IF \E i \in 1..Len(s) : s[i] = Sep
  THEN CHOOSE i \in 1..Len(s) : s[i] = Sep /\ \A j \in 1..(i - 1) : s[j] # Sep
  ELSE 0

\* Path::components of a text: split at separators; empty components and
\* "." components are dropped, ".." components are kept
RECURSIVE Components(_)
Components(s) ==
  IF s = <<>> THEN <<>>
  ELSE LET i == FirstSep(s)
           first == IF i = 0 THEN s ELSE SubSeq(s, 1, i - 1)
           rest == IF i = 0 THEN <<>> ELSE SubSeq(s, i + 1, Len(s))
       IN (IF first = <<>> \/ first = Dot THEN <<>> ELSE <<first>>)
            \o Components(rest)

is_absolute(s) == s # <<>> /\ s[1] = Sep

\* PathBuf::join: an absolute argument replaces the base
join(base, s) == IF is_absolute(s) THEN Components(s) ELSE base \o Components(s)

\* Path::parent: the path without its last component
parent(p) == SubSeq(p, 1, Len(p) - 1)

NoText == <<"\\0">>

\* Path::file_name: None (NoText) for the root and for a path ending in ".."
file_name(p) ==
  IF p = <<>> \/ p[Len(p)] = DotDot THEN NoText ELSE p[Len(p)]

\* index of the last "." of a file name, 0 when there is none
LastDot(n) ==
  IF \E i \in 1..Len(n) : n[i] = "."
  THEN CHOOSE i \in 1..Len(n) :
         n[i] = "." /\ \A j \in (i + 1)..Len(n) : n[j] # "."
  ELSE 0

\* Path::extension: the part after the last ".", None (NoText) when the
\* name has no "." or only a leading one
extension(p) ==
  LET n == file_name(p) IN
  IF n = NoText \/ LastDot(n) <= 1 THEN NoText
  ELSE SubSeq(n, LastDot(n) + 1, Len(n))

\* Path::file_stem: the part before the last ".", the whole name when the
\* name has no "." or only a leading one
file_stem(p) ==
  LET n == file_name(p) IN
  IF n = NoText THEN NoText
  ELSE IF LastDot(n) <= 1 THEN n
  ELSE SubSeq(n, 1, LastDot(n) - 1)

is_prefix(p, q) == Len(p) <= Len(q) /\ SubSeq(q, 1, Len(p)) = p

(***************************************************************************)
(* The filesystem (std::fs as the program uses it)                         *)
(*                                                                         *)
(* fs maps every existing resolved path to a node; the root always exists. *)
(* An operation that can fail for reasons outside the program takes the    *)
(* failure as an argument, which the calling action draws from a small set.*)
(***************************************************************************)
Root == <<>>
DirNode == [dir |-> TRUE, data |-> <<>>]
FileNode(d) == [dir |-> FALSE, data |-> d]

NoFault == 0 - 1

\* the path of no directory (a source without extraction directory)
NoDir == << NoText >>

\* The walk of the operating system along raw path cs from resolved path
\* cur: ".." steps to the parent, every component but the last must be a
\* directory.  err is "" or the ErrorKind of the failed lookup.
RECURSIVE walk(_, _, _)
walk(f, cur, cs) ==
  IF cs = <<>> THEN [err |-> "", path |-> cur]
  ELSE LET c == Head(cs)
           nxt == IF c = DotDot
                  THEN (IF cur = Root THEN Root ELSE parent(cur))
                  ELSE Append(cur, c)
       IN IF Tail(cs) = <<>> THEN [err |-> "", path |-> nxt]
          ELSE IF nxt \notin DOMAIN f THEN [err |-> "NotFound", path |-> Root]
          ELSE IF ~f[nxt].dir THEN [err |-> "NotADirectory", path |-> Root]
          ELSE walk(f, nxt, Tail(cs))

Resolve(f, raw) == walk(f, Root, raw)

\* Path::exists, Path::is_dir, Path::is_file
exists(f, raw) ==
  LET r == Resolve(f, raw) IN r.err = "" /\ r.path \in DOMAIN f

is_dir(f, raw) ==
  LET r == Resolve(f, raw) IN r.err = "" /\ r.path \in DOMAIN f /\ f[r.path].dir

is_file(f, raw) ==
  LET r == Resolve(f, raw) IN r.err = "" /\ r.path \in DOMAIN f /\ ~f[r.path].dir

\* The resolved paths strictly below resolved directory p
Below(f, p) == {q \in DOMAIN f : q # p /\ is_prefix(p, q)}

\* fs::read_dir as a set: the immediate children of resolved directory p
Children(f, p) == {q \in Below(f, p) : Len(q) = Len(p) + 1}

\* let v = ...; body
With(v, body(_)) == body(v)

\* The ? operator on an io::Result: a failure is returned to the caller
\* with the filesystem it left, a success goes on
Try(r, go_on(_)) == IF r.ok THEN go_on(r) ELSE [ok |-> FALSE, fs |-> r.fs]

\* mkdir(2).  k is the number of directories the environment still lets
\* the caller create before it answers PermissionDenied (NoFault: no limit).
mkdir(f, raw, k) ==
  LET r == Resolve(f, raw) IN
  IF r.err # "" THEN [res |-> r.err, fs |-> f, k |-> k]
  ELSE IF r.path \in DOMAIN f THEN [res |-> "AlreadyExists", fs |-> f, k |-> k]
  ELSE IF k = 0 THEN [res |-> "PermissionDenied", fs |-> f, k |-> k]
  ELSE [res |-> "Ok",
        fs |-> (r.path :> DirNode) @@ f,
        k |-> IF k = NoFault THEN k ELSE k - 1]

\* fs::create_dir_all (std): mkdir; on NotFound create the parent first and
\* mkdir again; any other error is a success when the path is a directory.
RECURSIVE create_dir_all(_, _, _)
create_dir_all(f, raw, k) ==
  IF raw = <<>> THEN [ok |-> TRUE, fs |-> f, k |-> k]
  ELSE With(mkdir(f, raw, k), LAMBDA m :
    IF m.res = "Ok" THEN [ok |-> TRUE, fs |-> m.fs, k |-> m.k]
    ELSE IF m.res # "NotFound"
    THEN [ok |-> is_dir(f, raw), fs |-> f, k |-> k]
    ELSE With(create_dir_all(f, parent(raw), k), LAMBDA a :
      IF ~a.ok THEN a
      ELSE With(mkdir(a.fs, raw, a.k), LAMBDA m2 :
        IF m2.res = "Ok" THEN [ok |-> TRUE, fs |-> m2.fs, k |-> m2.k]
        ELSE [ok |-> is_dir(a.fs, raw), fs |-> a.fs, k |-> a.k])))

RemoveModes == {"ok", "fail_intact", "fail_emptied"}

\* fs::remove_dir_all.  mode "ok": the directory and everything below it is
\* removed.  The two failing modes: nothing was removed; or the content was
\* removed but not the directory itself.  A path that is no directory fails.
remove_dir_all(f, raw, mode) ==
  LET r == Resolve(f, raw) IN
  IF ~is_dir(f, raw) \/ r.path = Root \/ mode = "fail_intact"
  THEN [ok |-> FALSE, fs |-> f]
  ELSE IF mode = "fail_emptied"
  THEN [ok |-> FALSE, fs |-> [q \in DOMAIN f \ Below(f, r.path) |-> f[q]]]
  ELSE [ok |-> TRUE,
        fs |-> [q \in (DOMAIN f \ Below(f, r.path)) \ {r.path} |-> f[q]]]

\* fs::remove_file
remove_file(f, raw, fails) ==
  LET r == Resolve(f, raw) IN
  IF ~is_file(f, raw) \/ fails THEN [ok |-> FALSE, fs |-> f]
  ELSE [ok |-> TRUE, fs |-> [q \in DOMAIN f \ {r.path} |-> f[q]]]

WriteModes == {"ok", "fail", "fail_partial"}

\* File::create(raw) followed by writing data.  The file is created or
\* truncated when its directory exists and raw is no directory.  Mode
\* "fail": the creation fails; "fail_partial": the file is created but the
\* write fails, which leaves it empty.
write_file(f, raw, data, mode) ==
  LET r == Resolve(f, raw) IN
  IF r.err # "" \/ is_dir(f, raw) \/ mode = "fail" THEN [ok |-> FALSE, fs |-> f]
  ELSE IF mode = "fail_partial"
  THEN [ok |-> FALSE, fs |-> (r.path :> FileNode(<<>>)) @@ f]
  ELSE [ok |-> TRUE, fs |-> (r.path :> FileNode(data)) @@ f]

\* fs::copy(from, to): from must be a file; to is created or overwritten
copy(f, from, to, mode) ==
  IF ~is_file(f, from) THEN [ok |-> FALSE, fs |-> f]
  ELSE write_file(f, to, f[Resolve(f, from).path].data, mode)

(***************************************************************************)
(* model.rs: install targets                                               *)
(***************************************************************************)
ALL_INSTALL_TARGETS ==
  <<"Tracks", "BikesMotocross", "BikesSupercross", "BikesPaints", "Tyres",
    "RiderModels", "RiderPaints", "RiderGloves", "RiderHelmets",
    "RiderHelmetPaints", "RiderBoots", "RiderBootPaints", "RiderProtections">>

InstallTarget == {ALL_INSTALL_TARGETS[i] : i \in DOMAIN ALL_INSTALL_TARGETS}

relative_path(target) ==
  CASE target = "Tracks" -> <<"t","r","a","c","k","s">>
    [] target = "BikesMotocross" ->
         <<"b","i","k","e","s","/","m","o","t","o","c","r","o","s","s">>
    [] target = "BikesSupercross" ->
         <<"b","i","k","e","s","/","s","u","p","e","r","c","r","o","s","s">>
    [] target = "BikesPaints" -> <<"b","i","k","e","s","/","p","a","i","n","t","s">>
    [] target = "Tyres" -> <<"t","y","r","e","s">>
    [] target = "RiderModels" -> <<"r","i","d","e","r","/","r","i","d","e","r","s">>
    [] target = "RiderPaints" ->
         <<"r","i","d","e","r","/","r","i","d","e","r","s","/","p","a","i","n","t","s">>
    [] target = "RiderGloves" ->
         <<"r","i","d","e","r","/","r","i","d","e","r","s","/","g","l","o","v","e","s">>
    [] target = "RiderHelmets" ->
         <<"r","i","d","e","r","/","h","e","l","m","e","t","s">>
    [] target = "RiderHelmetPaints" ->
         <<"r","i","d","e","r","/","h","e","l","m","e","t","s","/","p","a","i","n","t","s">>
    [] target = "RiderBoots" -> <<"r","i","d","e","r","/","b","o","o","t","s">>
    [] target = "RiderBootPaints" ->
         <<"r","i","d","e","r","/","b","o","o","t","s","/","p","a","i","n","t","s">>
    [] target = "RiderProtections" ->
         <<"r","i","d","e","r","/","p","r","o","t","e","c","t","i","o","n","s">>

Paints == <<"p","a","i","n","t","s">>
Gloves == <<"g","l","o","v","e","s">>

\* no category with excluded subdirectories
excluded_subdirs_none(target) == {}

excluded_subdirs(target) ==
  CASE target = "RiderModels" -> {Paints, Gloves}
    [] target \in {"RiderHelmets", "RiderBoots"} -> {Paints}
    [] OTHER -> {}

(***************************************************************************)
(* fs_ops.rs                                                               *)
(***************************************************************************)
IndexIn(seq, c) == CHOOSE i \in DOMAIN seq : seq[i] = c

\* the bytes of the characters of the file-name alphabet (their ASCII codes)
CharCodes ==
  (" " :> 32) @@ ("-" :> 45) @@ ("." :> 46) @@ ("_" :> 95)
    @@ [c \in {Digits[i] : i \in DOMAIN Digits} |-> 47 + IndexIn(Digits, c)]
    @@ [c \in UpperSet |-> 64 + IndexIn(UpperLetters, c)]
    @@ [c \in {LowerLetters[i] : i \in DOMAIN LowerLetters} |->
          96 + IndexIn(LowerLetters, c)]

CharCode(c) == CharCodes[c]

\* Ord of String: bytewise lexicographic order
RECURSIVE TextLess(_, _)
TextLess(a, b) ==
  IF b = <<>> THEN FALSE
  ELSE IF a = <<>> THEN TRUE
  ELSE IF Head(a) # Head(b) THEN CharCode(Head(a)) < CharCode(Head(b))
  ELSE TextLess(Tail(a), Tail(b))

\* The order in which fs::read_dir yields the children of a directory is the
\* filesystem's; the model draws it from two orders: ascending or descending
\* by name.
ListingOrders == {"ascending", "descending"}

RECURSIVE Listing(_, _)
Listing(names, order) ==
  IF names = {} THEN <<>>
  ELSE LET first == CHOOSE n \in names :
                      \A m \in names \ {n} :
                        IF order = "ascending" THEN TextLess(n, m) ELSE TextLess(m, n)
       IN <<first>> \o Listing(names \ {first}, order)

\* fs::read_dir(dir) collected: the names of the children of dir in listing
\* order; ok is FALSE when dir is no directory
read_dir(f, dir, order) ==
  IF ~is_dir(f, dir) THEN [ok |-> FALSE, names |-> <<>>]
  ELSE LET d == Resolve(f, dir).path IN
       [ok |-> TRUE,
        names |-> Listing({q[Len(q)] : q \in Children(f, d)}, order)]

\* every file taken for an archive
is_supported_archive_any(path) == TRUE

is_supported_archive(path) ==
  extension(path) # NoText /\ eq_ignore_ascii_case(extension(path), <<"z","i","p">>)

is_pkz_file(path) ==
  extension(path) # NoText /\ eq_ignore_ascii_case(extension(path), <<"p","k","z">>)

\* the extension compared with its case
is_pnt_file_case_sensitive(path) == extension(path) = <<"p","n","t">>

is_pnt_file(path) ==
  extension(path) # NoText /\ eq_ignore_ascii_case(extension(path), <<"p","n","t">>)

\* the extension looked for with its case
with_extension_if_missing_case_sensitive(name, ext) ==
  IF ends_with(name, ext) THEN name ELSE name \o ext

with_extension_if_missing(name, ext) ==
  IF ends_with(to_lowercase(name), ext) THEN name ELSE name \o ext

\* an insertion before the entries of the same key
RECURSIVE InsertBeforeEqualKeys(_, _)
InsertBeforeEqualKeys(sorted, e) ==
  IF sorted = <<>> THEN <<e>>
  ELSE IF ~TextLess(to_lowercase(Head(sorted).name), to_lowercase(e.name))
  THEN <<e>> \o sorted
  ELSE <<Head(sorted)>> \o InsertBeforeEqualKeys(Tail(sorted), e)

\* Vec::sort_by_key(|e| e.name.to_lowercase()): a stable insertion of each
\* entry after the entries whose key is not greater
RECURSIVE InsertByKey(_, _)
InsertByKey(sorted, e) ==
  IF sorted = <<>> THEN <<e>>
  ELSE IF TextLess(to_lowercase(e.name), to_lowercase(Head(sorted).name))
  THEN <<e>> \o sorted
  ELSE <<Head(sorted)>> \o InsertByKey(Tail(sorted), e)

RECURSIVE sort_by_key(_)
sort_by_key(entries) ==
  IF entries = <<>> THEN <<>>
  ELSE InsertByKey(sort_by_key(SubSeq(entries, 1, Len(entries) - 1)),
                   entries[Len(entries)])

\* the loop of read_mod_entries over the listing
RECURSIVE KeepEntries(_, _, _, _)
KeepEntries(f, dir, names, excluded_dir_names) ==
  IF names = <<>> THEN <<>>
  ELSE LET name == Head(names)
           path == Append(dir, name)
           skip ==
             \/ /\ is_dir(f, path)
                /\ \E excluded \in excluded_dir_names :
                     eq_ignore_ascii_case(excluded, name)
             \/ ~is_dir(f, path) /\ ~is_pkz_file(path) /\ ~is_pnt_file(path)
       IN (IF skip THEN <<>> ELSE <<[name |-> name, path |-> path]>>)
            \o KeepEntries(f, dir, Tail(names), excluded_dir_names)

read_mod_entries(f, dir, excluded_dir_names, order) ==
  With(read_dir(f, dir, order), LAMBDA r :
    IF ~r.ok THEN <<>>
    ELSE sort_by_key(KeepEntries(f, dir, r.names, excluded_dir_names)))

(***************************************************************************)
(* Archives.  The content of a zip file stands for its central directory:  *)
(* ZipIndex gives the entries ZipArchive::new and by_index read from it.   *)
(***************************************************************************)
ZipPack == <<"z","i","p","1">>
ZipLoose == <<"z","i","p","2">>
ZipOne == <<"z","i","p","3">>
ZipNone == <<"z","i","p","4">>

\* Pack/ (a directory entry), Pack/a.txt, Pack/sub/b.txt
ZipPackEntries ==
  << [name |-> <<"P","a","c","k","/">>, data |-> <<>>],
     [name |-> <<"P","a","c","k","/","a",".","t","x","t">>, data |-> <<"a">>],
     [name |-> <<"P","a","c","k","/","s","u","b","/","b",".","t","x","t">>,
      data |-> <<"b">>] >>

\* x.txt, ../e (a traversal entry), /t/e (an absolute entry),
\* _mxbmm_meta.txt
ZipLooseEntries ==
  << [name |-> <<"x",".","t","x","t">>, data |-> <<"x">>],
     [name |-> <<".",".","/","e">>, data |-> <<"e">>],
     [name |-> <<"/","t","/","e">>, data |-> <<"e">>],
     [name |-> <<"_","m","x","b","m","m","_","m","e","t","a",".","t","x","t">>,
      data |-> <<"o","w","n">>] >>

\* y.txt alone
ZipOneEntries == << [name |-> <<"y",".","t","x","t">>, data |-> <<"y">>] >>

\* ZipNone is a container without entries; any other content is no zip
\* container
ZipIndex(data) ==
  CASE data = ZipPack -> [ok |-> TRUE, entries |-> ZipPackEntries]
    [] data = ZipLoose -> [ok |-> TRUE, entries |-> ZipLooseEntries]
    [] data = ZipOne -> [ok |-> TRUE, entries |-> ZipOneEntries]
    [] data = ZipNone -> [ok |-> TRUE, entries |-> <<>>]
    [] OTHER -> [ok |-> FALSE, entries |-> <<>>]

\* ZipFile::enclosed_name: None for an absolute name and for a name whose
\* ".." components climb above its start
RECURSIVE StaysInside(_, _)
StaysInside(cs, depth) ==
  IF cs = <<>> THEN TRUE
  ELSE IF Head(cs) = DotDot
  THEN depth > 0 /\ StaysInside(Tail(cs), depth - 1)
  ELSE StaysInside(Tail(cs), depth + 1)

\* every stored name taken as it is
enclosed_name_always(name) == TRUE

enclosed_name_is_some(name) ==
  ~is_absolute(name) /\ StaysInside(Components(name), 0)

\* a fault budget after one more step
Spend(n) == IF n = NoFault THEN n ELSE n - 1

\* The loop of extract_zip_archive.  n is the number of entries written
\* before the environment fails a write (NoFault: it never does).
RECURSIVE extract_entries(_, _, _, _)
extract_entries(f, destination, entries, n) ==
  IF entries = <<>> THEN [ok |-> TRUE, fs |-> f]
  ELSE IF ~enclosed_name_is_some(Head(entries).name)
  THEN extract_entries(f, destination, Tail(entries), n)
  ELSE IF n = 0 THEN [ok |-> FALSE, fs |-> f]
  ELSE With(join(destination, Head(entries).name), LAMBDA outpath :
    IF ends_with(Head(entries).name, <<Sep>>)
    THEN Try(create_dir_all(f, outpath, NoFault), LAMBDA d :
           extract_entries(d.fs, destination, Tail(entries), Spend(n)))
    ELSE Try(create_dir_all(f, parent(outpath), NoFault), LAMBDA d :
         Try(write_file(d.fs, outpath, Head(entries).data, "ok"), LAMBDA w :
           extract_entries(w.fs, destination, Tail(entries), Spend(n)))))

\* the entries of the archive at archive_path, none when it cannot be read
ArchiveEntries(f, archive_path) ==
  IF ~is_file(f, archive_path) THEN <<>>
  ELSE ZipIndex(f[Resolve(f, archive_path).path].data).entries

extract_zip_archive(f, archive_path, destination, n) ==
  IF ~is_file(f, archive_path) THEN [ok |-> FALSE, fs |-> f]
  ELSE With(ZipIndex(f[Resolve(f, archive_path).path].data), LAMBDA z :
    IF ~z.ok THEN [ok |-> FALSE, fs |-> f]
    ELSE extract_entries(f, destination, z.entries, n))

\* a guess that never looks at the extracted tree
guess_mod_name_from_stem(f, extract_dir, archive_path, order) ==
  IF file_stem(archive_path) # NoText THEN file_stem(archive_path)
  ELSE <<"m","o","d">>

guess_mod_name(f, extract_dir, archive_path, order) ==
  With(read_dir(f, extract_dir, order).names, LAMBDA entries :
    IF Len(entries) = 1 /\ is_dir(f, Append(extract_dir, entries[1]))
    THEN entries[1]
    ELSE IF file_stem(archive_path) # NoText THEN file_stem(archive_path)
    ELSE <<"m","o","d">>)

\* a copy source that is never flattened
pick_source_root_unflattened(f, extract_dir, order) == extract_dir

pick_source_root(f, extract_dir, order) ==
  With(read_dir(f, extract_dir, order), LAMBDA r :
    IF ~r.ok THEN extract_dir
    ELSE IF Len(r.names) = 1 /\ is_dir(f, Append(extract_dir, r.names[1]))
    THEN Append(extract_dir, r.names[1])
    ELSE extract_dir)

\* WalkDir::new(dir) below the root entry: depth first, a directory before
\* its content, the children of a directory in listing order
RECURSIVE WalkBelow(_, _, _)
RECURSIVE WalkEach(_, _, _, _)
WalkBelow(f, dir, order) == WalkEach(f, dir, read_dir(f, dir, order).names, order)

WalkEach(f, dir, names, order) ==
  IF names = <<>> THEN <<>>
  ELSE LET path == Append(dir, Head(names)) IN
       <<path>> \o (IF is_dir(f, path) THEN WalkBelow(f, path, order) ELSE <<>>)
         \o WalkEach(f, dir, Tail(names), order)

\* The loop of copy_dir_contents over the entries below the source.  n is
\* the number of entries copied before the environment fails one
\* (NoFault: it never does); a failing fs::copy fails in mode failing.
RECURSIVE copy_entries(_, _, _, _, _, _)
copy_entries(f, source, destination, paths, n, failing) ==
  IF paths = <<>> THEN [ok |-> TRUE, fs |-> f]
  ELSE LET path == Head(paths)
           target == destination \o SubSeq(path, Len(source) + 1, Len(path))
       IN IF is_dir(f, path)
          THEN Try(create_dir_all(f, target, IF n = 0 THEN 0 ELSE NoFault),
                 LAMBDA d :
                   IF n = 0 THEN [ok |-> FALSE, fs |-> d.fs]
                   ELSE copy_entries(d.fs, source, destination, Tail(paths),
                                     Spend(n), failing))
          ELSE Try(create_dir_all(f, parent(target), NoFault), LAMBDA d :
               Try(copy(d.fs, path, target, IF n = 0 THEN failing ELSE "ok"),
                 LAMBDA c :
                   copy_entries(c.fs, source, destination, Tail(paths),
                                Spend(n), failing)))

\* WalkDir yields an error for a source that does not exist; a source that
\* is a file is the only entry, which the loop skips (its relative path is
\* empty)
copy_dir_contents(f, source, destination, order, n, failing) ==
  IF ~exists(f, source) THEN [ok |-> FALSE, fs |-> f]
  ELSE IF ~is_dir(f, source) THEN [ok |-> TRUE, fs |-> f]
  ELSE copy_entries(f, source, destination, WalkBelow(f, source, order), n, failing)

MetaFileName == <<"_","m","x","b","m","m","_","m","e","t","a",".","t","x","t">>

\* Path::display of an absolute path
RECURSIVE display(_)
display(path) ==
  IF path = <<>> THEN <<>> ELSE <<Sep>> \o Head(path) \o display(Tail(path))

\* the four lines write_metadata_file writes
metadata_text(install_target, version, notes, archive_path) ==
  <<"i","n","s","t","a","l","l","_","t","a","r","g","e","t","=">>
    \o relative_path(install_target) \o <<"\n">>
    \o <<"v","e","r","s","i","o","n","=">> \o trim(version) \o <<"\n">>
    \o <<"a","r","c","h","i","v","e","=">> \o display(archive_path) \o <<"\n">>
    \o <<"n","o","t","e","s","=">> \o replace_newlines(notes) \o <<"\n">>

write_metadata_file(f, destination, install_target, version, notes, archive_path, mode) ==
  write_file(f, Append(destination, MetaFileName),
             metadata_text(install_target, version, notes, archive_path), mode)

\* std::env::temp_dir() and std::process::id()
TempDir == << <<"t">> >>
Pid == 7
MaxAttempts == 1000

ExtractsBase ==
  Append(TempDir, <<"m","x","b","m","m","_","e","x","t","r","a","c","t","s">>)

ExtractDirName(pid, now_nanos, attempt) ==
  <<"e","x","t","r","a","c","t","-">> \o DecStr(pid) \o <<"-">>
    \o DecStr(now_nanos) \o <<"-">> \o DecStr(attempt)

\* the io::Error of a failed system call, and the one create_temp_extract_dir
\* makes itself (io::Error::new(ErrorKind::AlreadyExists, ...))
OsError == "os error"
NoUniqueDir == "Failed to create a unique extraction directory."

\* an attempt that takes its candidate without looking
try_attempt_unchecked(f, now_nanos, attempt, k) ==
  With(Append(ExtractsBase, ExtractDirName(Pid, now_nanos, attempt)),
    LAMBDA dir :
      With(create_dir_all(f, dir, k), LAMBDA d :
        IF d.ok THEN [returned |-> TRUE, ok |-> TRUE, fs |-> d.fs, dir |-> dir]
        ELSE [returned |-> TRUE, ok |-> FALSE, fs |-> d.fs, err |-> OsError]))

\* the body of the loop of create_temp_extract_dir for one attempt:
\* whether it returned, and what
try_attempt(f, now_nanos, attempt, k) ==
  With(Append(ExtractsBase, ExtractDirName(Pid, now_nanos, attempt)),
    LAMBDA dir :
      IF ~exists(f, dir)
      THEN With(create_dir_all(f, dir, k), LAMBDA d :
             IF d.ok THEN [returned |-> TRUE, ok |-> TRUE, fs |-> d.fs, dir |-> dir]
             ELSE [returned |-> TRUE, ok |-> FALSE, fs |-> d.fs, err |-> OsError])
      ELSE [returned |-> FALSE])

\* for attempt in lo..hi: the attempts in ascending order up to the first
\* that returns.  An attempt that does not return changes nothing, so the
\* range is walked in two halves, which keeps the evaluation shallow.
RECURSIVE try_attempts(_, _, _, _, _)
try_attempts(f, now_nanos, lo, hi, k) ==
  IF lo >= hi THEN [returned |-> FALSE]
  ELSE IF hi - lo = 1 THEN try_attempt(f, now_nanos, lo, k)
  ELSE With(try_attempts(f, now_nanos, lo, (lo + hi) \div 2, k), LAMBDA r :
    IF r.returned THEN r
    ELSE try_attempts(f, now_nanos, (lo + hi) \div 2, hi, k))

\* a call that settles for its last candidate when all of them exist
create_temp_extract_dir_reusing(f, now_nanos, k) ==
  With(create_dir_all(f, ExtractsBase, k), LAMBDA b :
    IF ~b.ok THEN [ok |-> FALSE, fs |-> b.fs, err |-> OsError]
    ELSE With(try_attempts(b.fs, now_nanos, 0, MaxAttempts, b.k), LAMBDA r :
      IF r.returned /\ r.ok THEN [ok |-> TRUE, fs |-> r.fs, dir |-> r.dir]
      ELSE IF r.returned THEN [ok |-> FALSE, fs |-> r.fs, err |-> r.err]
      ELSE [ok |-> TRUE, fs |-> b.fs,
            dir |-> Append(ExtractsBase,
                           ExtractDirName(Pid, now_nanos, MaxAttempts - 1))]))

create_temp_extract_dir(f, now_nanos, k) ==
  With(create_dir_all(f, ExtractsBase, k), LAMBDA b :
    IF ~b.ok THEN [ok |-> FALSE, fs |-> b.fs, err |-> OsError]
    ELSE With(try_attempts(b.fs, now_nanos, 0, MaxAttempts, b.k), LAMBDA r :
      IF r.returned /\ r.ok THEN [ok |-> TRUE, fs |-> r.fs, dir |-> r.dir]
      ELSE IF r.returned THEN [ok |-> FALSE, fs |-> r.fs, err |-> r.err]
      ELSE [ok |-> FALSE, fs |-> b.fs, err |-> NoUniqueDir]))

(***************************************************************************)
(* The environment: the files the user can drop, the initial filesystems,  *)
(* the values the user types, and the bounds of the model.                 *)
(***************************************************************************)
MaxTailLen == 4
MaxQueued == 2
MaxLeftovers == 8
MaxStagings == 2
MaxCommits == 1
MaxNanos == 0
MaxCreateFault == 1

InDir == << <<"i","n">> >>
PackZip == Append(InDir, <<"P",".","z","i","p">>)
LooseZip == Append(InDir, <<"T",".","z","i","p">>)
BadZip == Append(InDir, <<"B",".","z","i","p">>)
OneZip == Append(InDir, <<"O",".","Z","i","p">>)
NoneZip == Append(InDir, <<"N",".","z","i","p">>)
NoExtension == Append(InDir, <<"R","E","A","D">>)
CoolPkz == Append(InDir, <<"c","o","o","l",".","p","k","z">>)
SkinPnt == Append(InDir, <<"s","k","i","n",".","P","N","T">>)
ReadmeTxt == Append(InDir, <<"r",".","t","x","t">>)
GonePkz == Append(InDir, <<"g","o","n","e",".","p","k","z">>)

ModsRootText == <<"/","m">>
Tracks == << <<"m">>, <<"t","r","a","c","k","s">> >>
Pack == <<"P","a","c","k">>

\* the user's files and the temporary directory; no mods root yet
FsFresh ==
  (Root :> DirNode) @@ (InDir :> DirNode) @@ (TempDir :> DirNode)
    @@ (PackZip :> FileNode(ZipPack)) @@ (LooseZip :> FileNode(ZipLoose))
    @@ (BadZip :> FileNode(<<"b","a","d">>))
    @@ (OneZip :> FileNode(ZipOne)) @@ (NoneZip :> FileNode(ZipNone))
    @@ (NoExtension :> FileNode(<<"r">>))
    @@ (CoolPkz :> FileNode(<<"k">>)) @@ (SkinPnt :> FileNode(<<"s">>))
    @@ (ReadmeTxt :> FileNode(<<"r">>))

\* the same with a mods root that holds tracks/Pack/f.txt, tracks/cool.pkz
\* and tracks/skin.pnt
FsUsed ==
  FsFresh @@ (<< <<"m">> >> :> DirNode) @@ (Tracks :> DirNode)
    @@ (Append(Tracks, Pack) :> DirNode)
    @@ (Append(Append(Tracks, Pack), <<"f",".","t","x","t">>) :> FileNode(<<"f">>))
    @@ (Append(Tracks, <<"c","o","o","l",".","p","k","z">>) :> FileNode(<<"o","l","d">>))
    @@ (Append(Tracks, <<"s","k","i","n",".","p","n","t">>) :> FileNode(<<"o","l","d">>))

InitialFilesystems == {FsUsed}

None == <<>>
Some(x) == <<x>>

\* egui's dropped_files of one frame: each file with its optional path
DropEvents ==
  { <<Some(PackZip)>>, <<Some(LooseZip)>>, <<Some(BadZip)>>, <<Some(CoolPkz)>>,
    <<Some(SkinPnt)>>, <<Some(ReadmeTxt)>>, <<Some(GonePkz)>>,
    <<Some(OneZip)>>, <<Some(NoneZip)>>, <<Some(NoExtension)>>,
    <<Some(PackZip), Some(CoolPkz)>>, <<None>>, <<>> }

\* the last name leads through a directory x that does not exist back to
\* the installed tracks/Pack
NameChoices ==
  { <<>>, <<" ">>, <<"a","/","b">>, <<"/","i","n">>,
    <<"x","/",".",".","/","P","a","c","k">> }

TargetChoices == {"Tracks", "RiderPaints"}
VersionChoices == { <<>>, <<" ","1"," ">> }
NotesChoices == { <<>>, <<"l","1","\n","l","2">> }

\* Faults of the environment.  A call that has to create directory raw is
\* let to create 0..MaxCreateFault directories before it is refused, or is
\* never refused; a call on an existing directory creates nothing.
CreateBudgets(f, raw) ==
  IF is_dir(f, raw) THEN {NoFault} ELSE (0..MaxCreateFault) \cup {NoFault}

\* A loop over count entries fails at its first, second, ... or last entry,
\* or at none.
EntryBudgets(count) == (0..(count - 1)) \cup {NoFault}

\* The removals whose result the program discards (let _ = ...) run on
\* directories the program itself created; the environment of the model
\* lets them succeed.
CleanupRemoveModes == {"ok"}

(***************************************************************************)
(* app.rs: MxbmmApp                                                        *)
(*                                                                         *)
(* lists holds the thirteen Vec<ModEntry> fields, one per install target.  *)
(* running is FALSE once the application has exited.  call is a history    *)
(* variable: the handler that produced the current state and the pending   *)
(* slot and filesystem it started from (an edit of the pending form        *)
(* records no pending slot), whether the step before it was a Cancel, and  *)
(* the dropped files the handler was given.  commits counts the calls of   *)
(* install_pending.  pending_uninstall is the entry of the "Confirm        *)
(* uninstall" window, None when the window is closed.                      *)
(*                                                                         *)
(* fs_watcher is None or holds the watched root and rx, the notifications  *)
(* the watcher thread has sent and process_fs_events has not yet received. *)
(* poll is the call of process_fs_events of the current frame: where it    *)
(* stands (pc), its locals should_refresh and event_error, and as history  *)
(* the number of notifications queued when it began (queued), whether a    *)
(* change notification was among them (queued_ok), the number it has       *)
(* received and the number of its calls of refresh_mod_lists (rescans).    *)
(***************************************************************************)
VARIABLES mods_root_input, status, lists, pending_install, pending_uninstall,
          fs, running, call, commits, fs_watcher, watcher_error_for_root, poll

vars == <<mods_root_input, status, lists, pending_install, pending_uninstall,
          fs, running, call, commits, fs_watcher, watcher_error_for_root, poll>>

watch == <<fs_watcher, watcher_error_for_root, poll>>

\* no call of process_fs_events under way
Idle ==
  [pc |-> "idle", should_refresh |-> FALSE, event_error |-> FALSE,
   queued |-> 0, queued_ok |-> FALSE, received |-> 0, rescans |-> 0]

StatusMessage(kind, text) == [kind |-> kind, text |-> text]

\* MxbmmApp::mods_root; a relative path is relative to the root directory
mods_root == Components(trim(mods_root_input))

target_dir(target) == join(mods_root, relative_path(target))

\* the 13 calls of read_mod_entries in refresh_mod_lists, in the order of
\* the source: the field assigned, the install target whose target_dir is
\* scanned, and the names of the exclusion list passed
RefreshScans ==
  << [field |-> "tracks", target |-> "Tracks", excluded |-> {}],
     [field |-> "bikes_motocross", target |-> "BikesMotocross", excluded |-> {}],
     [field |-> "bikes_supercross", target |-> "BikesSupercross", excluded |-> {}],
     [field |-> "bikes_paints", target |-> "BikesPaints", excluded |-> {}],
     [field |-> "tyres", target |-> "Tyres", excluded |-> {}],
     [field |-> "rider_models", target |-> "RiderModels",
      excluded |-> {Paints, Gloves}],
     [field |-> "rider_paints", target |-> "RiderPaints", excluded |-> {}],
     [field |-> "rider_gloves", target |-> "RiderGloves", excluded |-> {}],
     [field |-> "rider_helmets", target |-> "RiderHelmets", excluded |-> {Paints}],
     [field |-> "rider_helmet_paints", target |-> "RiderHelmetPaints",
      excluded |-> {}],
     [field |-> "rider_boots", target |-> "RiderBoots", excluded |-> {Paints}],
     [field |-> "rider_boot_paints", target |-> "RiderBootPaints", excluded |-> {}],
     [field |-> "rider_protections", target |-> "RiderProtections",
      excluded |-> {}] >>

\* exclusion lists without the paints of the rider models
RefreshExclusionsGloves(target) ==
  CASE target = "RiderModels" -> {Gloves}
    [] target = "RiderHelmets" -> {Paints}
    [] target = "RiderBoots" -> {Paints}
    [] OTHER -> {}

\* the exclusion lists refresh_mod_lists passes to read_mod_entries
RefreshExclusions(target) ==
  CASE target = "RiderModels" -> {Paints, Gloves}
    [] target = "RiderHelmets" -> {Paints}
    [] target = "RiderBoots" -> {Paints}
    [] OTHER -> {}

\* a refresh that passes no exclusion list
refresh_mod_lists_unfiltered(f, order) ==
  [t \in InstallTarget |-> read_mod_entries(f, target_dir(t), {}, order)]

refresh_mod_lists(f, order) ==
  [t \in InstallTarget |->
     read_mod_entries(f, target_dir(t), RefreshExclusions(t), order)]

ZipSource(archive_path, temp_extract_dir) ==
  [kind |-> "Zip", input |-> archive_path, temp_extract_dir |-> temp_extract_dir]
PkzSource(pkz_path) == [kind |-> "Pkz", input |-> pkz_path, temp_extract_dir |-> NoDir]
PntSource(pnt_path) == [kind |-> "Pnt", input |-> pnt_path, temp_extract_dir |-> NoDir]

PendingInstall(source, install_target, custom_name) ==
  [source |-> source, install_target |-> install_target,
   custom_name |-> custom_name, notes |-> <<>>, version |-> <<>>]

\* a cleanup that removes nothing
cleanup_skipped(f, source, mode) == f

\* PendingSource::cleanup
cleanup(f, source, mode) ==
  IF source.kind = "Zip"
  THEN remove_dir_all(f, source.temp_extract_dir, mode).fs
  ELSE f

WatcherUnavailable ==
  StatusMessage("Info", "File watcher unavailable for {}: {}. Use Refresh manually.")

\* create_fs_watcher: a new channel with nothing sent yet
FsWatcherState(root) == [root |-> root, rx |-> <<>>]

\* a sync that returns before it drops the watcher when the root is missing
sync_fs_watcher_keeping(f, w, e, created) ==
  IF (w # None /\ w[1].root = mods_root) \/ ~exists(f, mods_root)
  THEN [fs_watcher |-> w, watcher_error_for_root |-> e, status |-> None]
  ELSE IF created
  THEN [fs_watcher |-> Some(FsWatcherState(mods_root)),
        watcher_error_for_root |-> None, status |-> None]
  ELSE IF e # Some(mods_root)
  THEN [fs_watcher |-> None, watcher_error_for_root |-> Some(mods_root),
        status |-> Some(WatcherUnavailable)]
  ELSE [fs_watcher |-> None, watcher_error_for_root |-> e, status |-> None]

\* MxbmmApp::sync_fs_watcher on filesystem f, watcher w and
\* watcher_error_for_root e; created tells whether create_fs_watcher
\* succeeds.  status is None when the call sets no status.
sync_fs_watcher(f, w, e, created) ==
  IF w # None /\ w[1].root = mods_root
  THEN [fs_watcher |-> w, watcher_error_for_root |-> e, status |-> None]
  ELSE IF ~exists(f, mods_root)
  THEN [fs_watcher |-> None, watcher_error_for_root |-> e, status |-> None]
  ELSE IF created
  THEN [fs_watcher |-> Some(FsWatcherState(mods_root)),
        watcher_error_for_root |-> None, status |-> None]
  ELSE IF e # Some(mods_root)
  THEN [fs_watcher |-> None, watcher_error_for_root |-> Some(mods_root),
        status |-> Some(WatcherUnavailable)]
  ELSE [fs_watcher |-> None, watcher_error_for_root |-> e, status |-> None]

\* what a handler leaves behind
Finish(st, pend, f, l) ==
  /\ status' = Some(st)
  /\ pending_install' = pend
  /\ fs' = f
  /\ lists' = l

\* whether the step before the coming one was a Cancel
PrevOf(op) == IF op = "cancel" THEN "cancel" ELSE "other"

\* the history of a handler call: its name, the state it started from,
\* whether the step before it was a Cancel, and the files of the drop event
\* it was given (recorded for a drop on an empty slot only: a drop on an
\* occupied slot does not look at its files); order is the listing order of
\* the directories a Refresh read, which ClickRefresh records
CalledWith(op, files) ==
  call' = [op |-> op, pending |-> pending_install, fs |-> fs,
           prev |-> PrevOf(call.op),
           files |-> IF pending_install = None THEN files ELSE <<>>,
           order |-> ""]

Called(op) == CalledWith(op, <<>>)

\* a failed extraction that leaves its directory behind
prepare_pending_install_leaving_dir(f, archive_path, now_nanos, k, n, order, mode) ==
  With(create_temp_extract_dir(f, now_nanos, k), LAMBDA t :
    IF ~t.ok THEN [ok |-> FALSE, fs |-> t.fs, pending |-> None]
    ELSE With(extract_zip_archive(t.fs, archive_path, t.dir, n), LAMBDA e :
      IF ~e.ok THEN [ok |-> FALSE, fs |-> e.fs, pending |-> None]
      ELSE [ok |-> TRUE, fs |-> e.fs,
            pending |-> Some(PendingInstall(
                          ZipSource(archive_path, t.dir), "Tracks",
                          guess_mod_name(e.fs, t.dir, archive_path, order)))]))

prepare_pending_install(f, archive_path, now_nanos, k, n, order, mode) ==
  With(create_temp_extract_dir(f, now_nanos, k), LAMBDA t :
    IF ~t.ok THEN [ok |-> FALSE, fs |-> t.fs, pending |-> None]
    ELSE With(extract_zip_archive(t.fs, archive_path, t.dir, n), LAMBDA e :
      IF ~e.ok
      THEN [ok |-> FALSE, fs |-> remove_dir_all(e.fs, t.dir, mode).fs,
            pending |-> None]
      ELSE [ok |-> TRUE, fs |-> e.fs,
            pending |-> Some(PendingInstall(
                          ZipSource(archive_path, t.dir), "Tracks",
                          guess_mod_name(e.fs, t.dir, archive_path, order)))]))

prepare_pending_pkz_install(f, pkz_path) ==
  IF ~exists(f, pkz_path) THEN [ok |-> FALSE, pending |-> None]
  ELSE [ok |-> TRUE,
        pending |-> Some(PendingInstall(
                      PkzSource(pkz_path), "Tracks",
                      IF file_stem(pkz_path) # NoText THEN file_stem(pkz_path)
                      ELSE <<"t","r","a","c","k">>))]

prepare_pending_pnt_install(f, pnt_path) ==
  IF ~exists(f, pnt_path) THEN [ok |-> FALSE, pending |-> None]
  ELSE [ok |-> TRUE,
        pending |-> Some(PendingInstall(
                      PntSource(pnt_path), "RiderPaints",
                      IF file_stem(pnt_path) # NoText THEN file_stem(pnt_path)
                      ELSE <<"r","i","d","e","r">>))]

\* only the first dropped file is looked at
DroppedPathsFirstOnly(dropped_files) == Head(dropped_files)

\* dropped_files.into_iter().filter_map(|f| f.path).collect()
RECURSIVE DroppedPaths(_)
DroppedPaths(dropped_files) ==
  IF dropped_files = <<>> THEN <<>>
  ELSE Head(dropped_files) \o DroppedPaths(Tail(dropped_files))

\* handle_dropped_files from let files = ... on
stage_dropped_files(dropped_files) ==
  IF Len(DroppedPaths(dropped_files)) # 1
  THEN Finish(StatusMessage("Error", "Drop exactly one file at a time."),
              pending_install, fs, lists)
  ELSE \E file_path \in {DroppedPaths(dropped_files)[1]} :
  IF is_pkz_file(file_path)
  THEN \E r \in {prepare_pending_pkz_install(fs, file_path)} :
       IF r.ok
       THEN Finish(StatusMessage("Info", ".pkz file loaded"), r.pending, fs, lists)
       ELSE Finish(StatusMessage("Error", "Failed to prepare .pkz file"),
                   pending_install, fs, lists)
  ELSE IF is_pnt_file(file_path)
  THEN \E r \in {prepare_pending_pnt_install(fs, file_path)} :
       IF r.ok
       THEN Finish(StatusMessage("Info", ".pnt file loaded"), r.pending, fs, lists)
       ELSE Finish(StatusMessage("Error", "Failed to prepare .pnt file"),
                   pending_install, fs, lists)
  ELSE IF ~is_supported_archive(file_path)
  THEN Finish(StatusMessage("Error", "Unsupported file type."),
              pending_install, fs, lists)
  ELSE \E now_nanos \in 0..MaxNanos, k \in CreateBudgets(fs, NoDir),
          n \in EntryBudgets(Len(ArchiveEntries(fs, file_path))),
          order \in ListingOrders, mode \in CleanupRemoveModes :
       \E r \in {prepare_pending_install(fs, file_path, now_nanos, k, n, order,
                                         mode)} :
         IF r.ok
         THEN Finish(StatusMessage("Info", "Archive extracted"), r.pending, r.fs, lists)
         ELSE Finish(StatusMessage("Error", "Failed to extract archive"),
                     pending_install, r.fs, lists)

\* install_name_of with the trim forgotten
install_name_untrimmed(pending) == pending.custom_name

\* handle_dropped_files without the test of self.pending_install.is_some()
handle_dropped_files_unguarded(dropped_files) ==
  IF dropped_files = <<>> THEN UNCHANGED <<status, pending_install, fs, lists>>
  ELSE stage_dropped_files(dropped_files)

handle_dropped_files(dropped_files) ==
  IF dropped_files = <<>> THEN UNCHANGED <<status, pending_install, fs, lists>>
  ELSE IF pending_install # None
  THEN Finish(StatusMessage("Info",
                "Finish or cancel the current pending install before dropping another file."),
              pending_install, fs, lists)
  ELSE stage_dropped_files(dropped_files)

\* let install_name = pending.custom_name.trim().to_string()
install_name_of(pending) == trim(pending.custom_name)

\* a failed gate that returns without self.pending_install = Some(pending)
RejectedNotRestored(text, pending, f) ==
  [status |-> StatusMessage("Error", text), pending |-> None, fs |-> f]

\* the outcome of a failed gate of install_pending: the status it sets, the
\* pending slot it leaves and the filesystem it leaves
Rejected(text, pending, f) ==
  [status |-> StatusMessage("Error", text), pending |-> Some(pending), fs |-> f]

\* a copy failure that also releases the source of the pending install
CopyFailedReleasesSource(pending, f, destination, mode) ==
  Rejected("Install failed while copying files", pending,
           cleanup(remove_dir_all(f, destination, mode).fs, pending.source, mode))

\* the copy of an archive install failed: the destination is removed
CopyFailed(pending, f, destination, mode) ==
  Rejected("Install failed while copying files", pending,
           remove_dir_all(f, destination, mode).fs)

\* an end of install_pending that treats the failed metadata write (the
\* Info outcome) as one more failed gate
InstalledOnlyWithMetadata(kind, text, pending, f, mode) ==
  IF kind = "Info" THEN Rejected(text, pending, f)
  ELSE [status |-> StatusMessage(kind, text), pending |-> None,
        fs |-> cleanup(f, pending.source, mode)]

\* the end of install_pending after a successful copy:
\* pending.source.cleanup(), the slot stays empty
Installed(kind, text, pending, f, mode) ==
  [status |-> StatusMessage(kind, text), pending |-> None,
   fs |-> cleanup(f, pending.source, mode)]

\* self.refresh_mod_lists() at the end of a handler
Refreshed(g) ==
  \E order \in ListingOrders :
    Finish(g.status, g.pending, g.fs, refresh_mod_lists(g.fs, order))

NotRefreshed(g) == Finish(g.status, g.pending, g.fs, lists)

\* install_pending, PendingSource::Zip
install_zip(pending, install_name, base_destination, f) ==
  \E destination \in {join(base_destination, install_name)} :
  IF exists(f, destination)
  THEN NotRefreshed(Rejected(
         "Destination already exists: {}. Choose another install name.",
         pending, f))
  ELSE \E k \in CreateBudgets(f, destination) :
       \E d \in {create_dir_all(f, destination, k)} :
    IF ~d.ok
    THEN NotRefreshed(Rejected("Failed to create install folder", pending, d.fs))
    ELSE \E order \in ListingOrders, mode \in CleanupRemoveModes :
         \E source_root \in {pick_source_root(d.fs, pending.source.temp_extract_dir,
                                              order)} :
         \E n \in EntryBudgets(Len(WalkBelow(d.fs, source_root, order))) :
         \E failing \in IF n = NoFault THEN {"ok"} ELSE WriteModes \ {"ok"} :
         \E c \in {copy_dir_contents(d.fs, source_root, destination, order, n,
                                     failing)} :
      IF ~c.ok
      THEN NotRefreshed(CopyFailed(pending, c.fs, destination, mode))
      ELSE \E meta \in WriteModes :
           \E w \in {write_metadata_file(c.fs, destination,
                       pending.install_target, pending.version, pending.notes,
                       pending.source.input, meta)} :
        IF ~w.ok
        THEN Refreshed(Installed("Info",
               "Installed, but failed to write metadata file", pending, w.fs, mode))
        ELSE Refreshed(Installed("Success", "Installed mod to", pending, w.fs,
                                 mode))

\* install_pending, PendingSource::Pkz and PendingSource::Pnt
install_file(pending, install_name, base_destination, f, ext) ==
  \E destination \in {join(base_destination,
                           with_extension_if_missing(install_name, ext))} :
  IF exists(f, destination)
  THEN NotRefreshed(Rejected("Destination already exists: {}.", pending, f))
  ELSE \E failing \in WriteModes, mode \in CleanupRemoveModes :
       \E c \in {copy(f, pending.source.input, destination, failing)} :
    IF ~c.ok
    THEN NotRefreshed(Rejected("Failed to install file", pending, c.fs))
    ELSE Refreshed(Installed("Success", "Installed mod file to", pending, c.fs, mode))

\* install_pending with the base directory created before the name is tested
install_pending_base_first ==
  \E pending \in {pending_install[1]} :
  \E install_name \in {install_name_of(pending)} :
  \E base_destination \in {target_dir(pending.install_target)} :
  \E k \in CreateBudgets(fs, base_destination) :
  \E b \in {create_dir_all(fs, base_destination, k)} :
    IF ~b.ok
    THEN NotRefreshed(Rejected("Failed to create destination directory",
                               pending, b.fs))
    ELSE IF install_name = <<>>
    THEN NotRefreshed(Rejected("Install name cannot be empty.", pending, b.fs))
    ELSE IF pending.source.kind = "Zip"
    THEN install_zip(pending, install_name, base_destination, b.fs)
    ELSE IF pending.source.kind = "Pkz"
    THEN install_file(pending, install_name, base_destination, b.fs,
                      <<".","p","k","z">>)
    ELSE install_file(pending, install_name, base_destination, b.fs,
                      <<".","p","n","t">>)

install_pending ==
  \E pending \in {pending_install[1]} :
  \E install_name \in {install_name_of(pending)} :
  \E base_destination \in {target_dir(pending.install_target)} :
  IF install_name = <<>>
  THEN NotRefreshed(Rejected("Install name cannot be empty.", pending, fs))
  ELSE \E k \in CreateBudgets(fs, base_destination) :
       \E b \in {create_dir_all(fs, base_destination, k)} :
    IF ~b.ok
    THEN NotRefreshed(Rejected("Failed to create destination directory",
                               pending, b.fs))
    ELSE IF pending.source.kind = "Zip"
    THEN install_zip(pending, install_name, base_destination, b.fs)
    ELSE IF pending.source.kind = "Pkz"
    THEN install_file(pending, install_name, base_destination, b.fs,
                      <<".","p","k","z">>)
    ELSE install_file(pending, install_name, base_destination, b.fs,
                      <<".","p","n","t">>)

\* a Cancel that only empties the slot
cancel_pending_without_cleanup(mode) ==
  [status |-> StatusMessage("Info", "Pending install canceled."),
   pending |-> None, fs |-> fs]

\* the Cancel button of draw_pending_install_ui
cancel_pending(mode) ==
  [status |-> StatusMessage("Info", "Pending install canceled."),
   pending |-> None,
   fs |-> cleanup(fs, pending_install[1].source, mode)]

\* uninstall_mod without the match on the result of the removal
uninstall_mod_unchecked(f, entry, mode) ==
  With(IF is_dir(f, entry.path) THEN remove_dir_all(f, entry.path, mode)
       ELSE remove_file(f, entry.path, mode # "ok"),
    LAMBDA result :
      [ok |-> TRUE, status |-> StatusMessage("Success", "Removed mod"),
       fs |-> result.fs])

\* MxbmmApp::uninstall_mod.  mode is the way a removal of a directory
\* fails, if it does; a removal of a file fails when mode is not "ok".
uninstall_mod(f, entry, mode) ==
  With(IF is_dir(f, entry.path) THEN remove_dir_all(f, entry.path, mode)
       ELSE remove_file(f, entry.path, mode # "ok"),
    LAMBDA result :
      IF result.ok
      THEN [ok |-> TRUE, status |-> StatusMessage("Success", "Removed mod"),
            fs |-> result.fs]
      ELSE [ok |-> FALSE, status |-> StatusMessage("Error", "Failed to remove"),
            fs |-> result.fs])

(***************************************************************************)
(* Actions                                                                 *)
(***************************************************************************)
\* the file watcher of the runs of Spec is unavailable: create_fs_watcher
\* failed in MxbmmApp::default and fails in every frame, so that
\* sync_fs_watcher and process_fs_events change nothing
NoWatcher ==
  /\ fs_watcher = None
  /\ watcher_error_for_root = Some(mods_root)
  /\ poll = Idle

Init ==
  /\ mods_root_input = ModsRootText
  /\ status = Some(WatcherUnavailable)
  /\ pending_install = None
  /\ fs \in InitialFilesystems
  /\ \E order \in ListingOrders : lists = refresh_mod_lists(fs, order)
  /\ running = TRUE
  /\ commits = 0
  /\ NoWatcher
  /\ call = [op |-> "default", pending |-> None, fs |-> fs, prev |-> "other",
             files |-> <<>>, order |-> ""]
  /\ pending_uninstall = None

Drop ==
  /\ running
  /\ pending_install # None \/ commits < MaxCommits
  /\ \E dropped_files \in DropEvents :
       /\ handle_dropped_files(dropped_files)
       /\ CalledWith("handle_dropped_files", dropped_files)
  /\ UNCHANGED commits
  /\ UNCHANGED watch
  /\ UNCHANGED <<mods_root_input, running>>
  /\ UNCHANGED pending_uninstall

EditPending(field, value) ==
  /\ running
  /\ pending_install # None
  /\ pending_install' = Some([pending_install[1] EXCEPT ![field] = value])
  /\ call' = [op |-> "edit", pending |-> None, fs |-> fs, prev |-> "other",
              files |-> <<>>, order |-> ""]
  /\ UNCHANGED <<mods_root_input, status, lists, fs, running, commits>>
  /\ UNCHANGED watch
  /\ UNCHANGED pending_uninstall

EditTarget == \E target \in TargetChoices : EditPending("install_target", target)
EditName == \E name \in NameChoices : EditPending("custom_name", name)
EditVersion == \E version \in VersionChoices : EditPending("version", version)
EditNotes == \E notes \in NotesChoices : EditPending("notes", notes)

ClickInstall ==
  /\ running
  /\ pending_install # None
  /\ commits < MaxCommits
  /\ install_pending
  /\ commits' = commits + 1
  /\ Called("install_pending")
  /\ UNCHANGED <<mods_root_input, running>>
  /\ UNCHANGED watch
  /\ UNCHANGED pending_uninstall

ClickCancel ==
  /\ running
  /\ pending_install # None
  /\ \E mode \in CleanupRemoveModes : NotRefreshed(cancel_pending(mode))
  /\ Called("cancel")
  /\ UNCHANGED <<mods_root_input, running, commits>>
  /\ UNCHANGED watch
  /\ UNCHANGED pending_uninstall

\* eframe::run_native returns and the application value is dropped with all
\* its fields; no type of the program implements Drop and MxbmmApp does not
\* override on_exit, so nothing else runs
Shutdown ==
  /\ running
  /\ running' = FALSE
  /\ pending_install' = None
  /\ status' = None
  /\ lists' = [t \in InstallTarget |-> <<>>]
  /\ fs_watcher' = None
  /\ watcher_error_for_root' = None
  /\ Called("exit")
  /\ UNCHANGED <<mods_root_input, fs, commits, poll>>
  /\ pending_uninstall' = None

Next ==
  \/ Drop
  \/ EditTarget
  \/ EditName
  \/ EditVersion
  \/ EditNotes
  \/ ClickInstall
  \/ ClickCancel
  \/ Shutdown

Spec == Init /\ [][Next]_vars

(***************************************************************************)
(* NameSpec: the commit of a single-file install under every name the user *)
(* can type from a small alphabet.  It starts where a drop of cool.pkz or  *)
(* skin.PNT and an edit of the name field have led.                        *)
(***************************************************************************)
NameAlphabet == {".", "p", "k", "z", "K", "n", "t"}

\* the texts over NameAlphabet of at most n characters
RECURSIVE Tails(_)
Tails(n) ==
  IF n = 0 THEN {<<>>}
  ELSE Tails(n - 1)
         \cup {Append(t, c) : t \in {u \in Tails(n - 1) : Len(u) = n - 1},
                               c \in NameAlphabet}

TypedNames == {stem \o tail : stem \in {<<>>, <<"c">>}, tail \in Tails(MaxTailLen)}

NameInit ==
  /\ mods_root_input = ModsRootText
  /\ status = None
  /\ NoWatcher
  /\ fs = FsUsed
  /\ lists = refresh_mod_lists(fs, "ascending")
  /\ running = TRUE
  /\ commits = 0
  /\ \E name \in TypedNames :
       \E staged \in {PendingInstall(PkzSource(CoolPkz), "Tracks", name),
                       PendingInstall(PntSource(SkinPnt), "RiderPaints", name)} :
         pending_install = Some(staged)
  /\ call = [op |-> "edit", pending |-> None, fs |-> fs, prev |-> "other",
             files |-> <<>>, order |-> ""]
  /\ pending_uninstall = None

NameNext == ClickInstall

NameSpec == NameInit /\ [][NameNext]_vars

(***************************************************************************)
(* ScanSpec: the Refresh button on a mods root that other programs have    *)
(* filled since the application started on an empty one.  The directory    *)
(* rider/riders of the Rider Models holds any of eight children, or is     *)
(* missing, or is a file.                                                  *)
(***************************************************************************)
Rider == << <<"m">>, <<"r","i","d","e","r">> >>
Riders == Append(Rider, <<"r","i","d","e","r","s">>)

\* the children rider/riders may hold: the directories b, B, C, Paints and
\* d.txt, and the files m.PKZ, n.pnt and s.txt
ScanChildren ==
  { [name |-> <<"b">>, node |-> DirNode],
    [name |-> <<"B">>, node |-> DirNode],
    [name |-> <<"C">>, node |-> DirNode],
    [name |-> <<"P","a","i","n","t","s">>, node |-> DirNode],
    [name |-> <<"d",".","t","x","t">>, node |-> DirNode],
    [name |-> <<"m",".","P","K","Z">>, node |-> FileNode(<<"m">>)],
    [name |-> <<"n",".","p","n","t">>, node |-> FileNode(<<"n">>)],
    [name |-> <<"s",".","t","x","t">>, node |-> FileNode(<<"s">>)] }

\* filesystem f with the children cs in directory dir
WithChildren(f, dir, cs) ==
  [p \in DOMAIN f \cup {Append(dir, c.name) : c \in cs} |->
     IF p \in DOMAIN f THEN f[p]
     ELSE (CHOOSE c \in cs : Append(dir, c.name) = p).node]

ScanFilesystems ==
  {WithChildren(FsUsed @@ (Rider :> DirNode) @@ (Riders :> DirNode), Riders, cs) :
     cs \in SUBSET ScanChildren}
    \cup {FsUsed @@ (Rider :> DirNode),
          FsUsed @@ (Rider :> DirNode) @@ (Riders :> FileNode(<<"x">>))}

ScanInit ==
  /\ mods_root_input = ModsRootText
  /\ status = None
  /\ fs_watcher = None
  /\ watcher_error_for_root = None
  /\ poll = Idle
  /\ fs \in ScanFilesystems
  /\ lists = [t \in InstallTarget |-> <<>>]
  /\ pending_install = None
  /\ running = TRUE
  /\ commits = 0
  /\ call = [op |-> "default", pending |-> None, fs |-> fs, prev |-> "other",
             files |-> <<>>, order |-> ""]
  /\ pending_uninstall = None

\* the Refresh button of MxbmmApp::update
ClickRefresh ==
  /\ running
  /\ poll.pc = "idle"
  /\ \E order \in ListingOrders, created \in BOOLEAN :
       /\ Finish(StatusMessage("Info", "Refreshed installed mod list."),
                 pending_install, fs, refresh_mod_lists(fs, order))
       /\ \E w \in {sync_fs_watcher(fs, fs_watcher, watcher_error_for_root,
                                      created)} :
            /\ fs_watcher' = w.fs_watcher
            /\ watcher_error_for_root' = w.watcher_error_for_root
       /\ UNCHANGED poll
       /\ call' = [op |-> "refresh", pending |-> pending_install, fs |-> fs,
                   prev |-> PrevOf(call.op), files |-> <<>>, order |-> order]
  /\ UNCHANGED <<mods_root_input, running, commits>>
  /\ UNCHANGED pending_uninstall

ScanNext == ClickRefresh

ScanSpec == ScanInit /\ [][ScanNext]_vars

(***************************************************************************)
(* WatchSpec: the frames of MxbmmApp::update up to the end of              *)
(* process_fs_events, the thread of the file watcher, which sends into the *)
(* channel at any moment, and another program that changes the mods tree.  *)
(* A try_recv is one step, so that a send can fall between any two.        *)
(***************************************************************************)
\* notify::Result<notify::Event>
NotifyResults == {"Ok", "Err"}

rx == fs_watcher[1].rx

\* what the loop of process_fs_events can still receive: nothing without a
\* watcher
Receivable == IF fs_watcher = None THEN <<>> ELSE rx

WatchInit ==
  /\ mods_root_input = ModsRootText
  /\ pending_install = None
  /\ fs = FsUsed
  /\ \E order \in ListingOrders : lists = refresh_mod_lists(fs, order)
  /\ running = TRUE
  /\ commits = 0
  /\ poll = Idle
  /\ \E created \in BOOLEAN :
       \E w \in {sync_fs_watcher(fs, None, None, created)} :
         /\ fs_watcher = w.fs_watcher
         /\ watcher_error_for_root = w.watcher_error_for_root
         /\ status = w.status
  /\ call = [op |-> "default", pending |-> None, fs |-> fs, prev |-> "other",
             files |-> <<>>, order |-> ""]
  /\ pending_uninstall = None

\* MxbmmApp::update begins: sync_fs_watcher(), then process_fs_events() up
\* to its loop
BeginFrame ==
  /\ running
  /\ poll.pc = "idle"
  /\ \E created \in BOOLEAN :
       \E w \in {sync_fs_watcher(fs, fs_watcher, watcher_error_for_root, created)} :
         /\ fs_watcher' = w.fs_watcher
         /\ watcher_error_for_root' = w.watcher_error_for_root
         /\ status' = IF w.status # None THEN w.status ELSE status
         /\ poll' = [pc |-> "loop", should_refresh |-> FALSE,
                     event_error |-> FALSE,
                     queued |-> IF w.fs_watcher = None THEN 0
                                ELSE Len(w.fs_watcher[1].rx),
                     queued_ok |-> /\ w.fs_watcher # None
                                   /\ \E i \in DOMAIN w.fs_watcher[1].rx :
                                        w.fs_watcher[1].rx[i] = "Ok",
                     received |-> 0, rescans |-> 0]
  /\ UNCHANGED <<mods_root_input, lists, pending_install, fs, running, commits,
                 call>>
  /\ UNCHANGED pending_uninstall

\* try_recv has a notification to return
TryRecvOk == poll.pc = "loop" /\ Receivable # <<>>

\* process_fs_events returned at once for want of a watcher, or try_recv
\* returns Empty (it never waits for a send)
TryRecvEmpty == poll.pc = "loop" /\ Receivable = <<>>

\* a loop that refreshes at every change notification it receives
TryRecvRefreshing ==
  /\ TryRecvOk
  /\ fs_watcher' = Some([fs_watcher[1] EXCEPT !.rx = Tail(rx)])
  /\ poll' = [poll EXCEPT !.received = @ + 1,
                          !.should_refresh = @ \/ Head(rx) = "Ok",
                          !.event_error = @ \/ Head(rx) = "Err",
                          !.rescans = IF Head(rx) = "Ok" THEN @ + 1 ELSE @]
  /\ \E order \in ListingOrders :
       lists' = IF Head(rx) = "Ok" THEN refresh_mod_lists(fs, order) ELSE lists
  /\ UNCHANGED <<mods_root_input, status, pending_install, fs, running,
                 commits, call, watcher_error_for_root>>
  /\ UNCHANGED pending_uninstall

\* a loop in which the last notification received decides
TryRecvLastDecides ==
  /\ TryRecvOk
  /\ fs_watcher' = Some([fs_watcher[1] EXCEPT !.rx = Tail(rx)])
  /\ poll' = [poll EXCEPT !.received = @ + 1,
                          !.should_refresh = Head(rx) = "Ok",
                          !.event_error = Head(rx) = "Err"]
  /\ UNCHANGED <<mods_root_input, status, lists, pending_install, fs, running,
                 commits, call, watcher_error_for_root>>
  /\ UNCHANGED pending_uninstall

\* watcher.rx.try_recv() returns a notification: one turn of the loop of
\* process_fs_events
TryRecv ==
  /\ TryRecvOk
  /\ fs_watcher' = Some([fs_watcher[1] EXCEPT !.rx = Tail(rx)])
  /\ poll' = [poll EXCEPT !.received = @ + 1,
                          !.should_refresh = @ \/ Head(rx) = "Ok",
                          !.event_error = @ \/ Head(rx) = "Err"]
  /\ UNCHANGED <<mods_root_input, status, lists, pending_install, fs, running,
                 commits, call, watcher_error_for_root>>
  /\ UNCHANGED pending_uninstall

\* there is no watcher, or try_recv finds the channel empty: the loop ends
\* and process_fs_events refreshes and sets the status as its locals say
EndPoll ==
  /\ TryRecvEmpty
  /\ \E order \in ListingOrders :
       lists' = IF poll.should_refresh THEN refresh_mod_lists(fs, order) ELSE lists
  /\ status' = IF poll.event_error
               THEN Some(StatusMessage("Info",
                      "File watcher event error: {}. Refresh may be needed."))
               ELSE status
  /\ poll' = [poll EXCEPT !.pc = "idle",
                          !.rescans = IF poll.should_refresh THEN @ + 1 ELSE @]
  /\ Called("process_fs_events")
  /\ UNCHANGED <<mods_root_input, pending_install, fs, running, commits,
                 fs_watcher, watcher_error_for_root>>
  /\ UNCHANGED pending_uninstall

\* the thread of the watcher sends a notification; a poll under way sees at
\* most MaxQueued notifications
WatcherSend ==
  /\ running
  /\ fs_watcher # None
  /\ Len(rx) + (IF poll.pc = "loop" THEN poll.received ELSE 0) < MaxQueued
  /\ \E event_result \in NotifyResults :
       fs_watcher' = Some([fs_watcher[1] EXCEPT !.rx = Append(rx, event_result)])
  /\ UNCHANGED <<mods_root_input, status, lists, pending_install, fs, running,
                 commits, call, watcher_error_for_root, poll>>
  /\ UNCHANGED pending_uninstall

NewTrack == Append(Tracks, <<"N","e","w">>)

\* another program creates or removes the directory tracks/New
ExternalChange ==
  /\ running
  /\ fs' = IF NewTrack \in DOMAIN fs
           THEN [p \in DOMAIN fs \ {NewTrack} |-> fs[p]]
           ELSE fs @@ (NewTrack :> DirNode)
  /\ Called("external")
  /\ UNCHANGED <<mods_root_input, status, lists, pending_install, running,
                 commits, fs_watcher, watcher_error_for_root, poll>>
  /\ UNCHANGED pending_uninstall

WatchNext ==
  \/ BeginFrame
  \/ TryRecv
  \/ EndPoll
  \/ WatcherSend
  \/ ExternalChange

WatchSpec == WatchInit /\ [][WatchNext]_vars

\* the interaction loop is scheduled fairly: a frame that can begin does
\* begin, and process_fs_events, once called, runs to its end
\* (weak fairness of each of the three steps, written with the guard of
\* the step for its enabledness: each of them changes poll or rx whenever
\* its guard holds)
WatchLiveSpec ==
  /\ WatchInit
  /\ [][WatchNext]_vars
  /\ ([]<>~(running /\ poll.pc = "idle") \/ []<><<BeginFrame>>_vars)
  /\ ([]<>~TryRecvOk \/ []<><<TryRecv>>_vars)
  /\ ([]<>~TryRecvEmpty \/ []<><<EndPoll>>_vars)

(***************************************************************************)
(* RootSpec: WatchSpec without the other program, with the Refresh button  *)
(* and with a user who edits the text of the mods root between two calls   *)
(* of process_fs_events (the text field is drawn after it in update).      *)
(***************************************************************************)
\* /m, the same with blanks and a trailing separator, a directory that
\* exists, and one that does not
RootChoices ==
  { ModsRootText, <<" ","/","m","/"," ">>, <<"/","i","n">>, <<"/","n","o">> }

EditRoot ==
  /\ running
  /\ poll.pc = "idle"
  /\ \E text \in RootChoices \ {mods_root_input} : mods_root_input' = text
  /\ call' = [op |-> "edit", pending |-> None, fs |-> fs, prev |-> "other",
              files |-> <<>>, order |-> ""]
  /\ UNCHANGED <<status, lists, pending_install, fs, running, commits>>
  /\ UNCHANGED watch
  /\ UNCHANGED pending_uninstall

RootNext ==
  \/ EditRoot
  \/ BeginFrame
  \/ TryRecv
  \/ EndPoll
  \/ WatcherSend
  \/ ClickRefresh

RootSpec == WatchInit /\ [][RootNext]_vars

(***************************************************************************)
(* TempSpec: calls of create_temp_extract_dir in a temporary directory     *)
(* where earlier runs of the program, of the same process id and at the    *)
(* same timestamp, have left extraction directories behind: the first j    *)
(* candidate names, or all but one.  Every other leftover holds a file.    *)
(* commits counts the calls here.                                          *)
(***************************************************************************)
Candidate(now_nanos, attempt) ==
  Append(ExtractsBase, ExtractDirName(Pid, now_nanos, attempt))

Attempts == 0..(MaxAttempts - 1)

TakenSets ==
  {0..(j - 1) : j \in (0..MaxLeftovers) \cup ((MaxAttempts - MaxLeftovers)..MaxAttempts)}
    \cup {Attempts \ {g} : g \in {0, MaxAttempts \div 2}}

WithLeftovers(taken) ==
  [p \in {Candidate(0, a) : a \in taken} |-> DirNode]
    @@ [p \in {Append(Candidate(0, a), <<"o","l","d">>) :
                 a \in {b \in taken : b % 2 = 0}} |-> FileNode(<<"o">>)]
    @@ (ExtractsBase :> DirNode) @@ FsUsed

\* also: no mxbmm_extracts yet, and a file of that name
TempFilesystems ==
  {WithLeftovers(taken) : taken \in TakenSets}
    \cup {FsUsed, (ExtractsBase :> FileNode(<<"x">>)) @@ FsUsed}

TempInit ==
  /\ mods_root_input = ModsRootText
  /\ status = None
  /\ NoWatcher
  /\ fs \in TempFilesystems
  /\ lists = [t \in InstallTarget |-> <<>>]
  /\ pending_install = None
  /\ running = TRUE
  /\ commits = 0
  /\ call = [op |-> "default", pending |-> None, fs |-> fs, prev |-> "other",
             files |-> <<>>, order |-> "", now_nanos |-> 0,
             result |-> [ok |-> FALSE, fs |-> fs, err |-> ""],
             earlier |-> {}]
  /\ pending_uninstall = None

\* one call of create_temp_extract_dir; the history keeps its result and the
\* directories the calls before it returned
CreateTempExtractDir ==
  /\ running
  /\ commits < MaxStagings
  /\ \E now_nanos \in 0..MaxNanos, k \in CreateBudgets(fs, NoDir) :
       \E r \in {create_temp_extract_dir(fs, now_nanos, k)} :
         /\ fs' = r.fs
         /\ call' = [op |-> "create_temp_extract_dir", pending |-> None,
                     fs |-> fs, prev |-> "other", files |-> <<>>, order |-> "",
                     now_nanos |-> now_nanos, result |-> r,
                     earlier |-> call.earlier
                                   \cup (IF call.result.ok THEN {call.result.dir}
                                         ELSE {})]
  /\ commits' = commits + 1
  /\ UNCHANGED <<mods_root_input, status, lists, pending_install, running>>
  /\ UNCHANGED watch
  /\ UNCHANGED pending_uninstall

TempNext == CreateTempExtractDir

TempSpec == TempInit /\ [][TempNext]_vars

(***************************************************************************)
(* MetaSpec: the commit of an archive install into every category, for     *)
(* some versions and notes the form lets the user type, and for two        *)
(* archives: P.zip and an archive whose file name holds a newline, which   *)
(* the file names of the operating system may.  It starts where the drop   *)
(* of the archive and the edits of the form have led.                      *)
(***************************************************************************)
NewlineZip == Append(InDir, <<"l","\n","n",".","z","i","p">>)

MetaArchives == {PackZip, NewlineZip}

\* the single-line field of the version takes no newline
MetaVersions == { <<>>, <<" ","1"," ">>, <<"1",".","0">> }

MetaNotes == { <<>>, <<"l","1","\n","l","2">>, <<"a","\r","\n","b","\n">> }

MetaInit ==
  /\ mods_root_input = ModsRootText
  /\ status = Some(StatusMessage("Info", "Archive extracted"))
  /\ NoWatcher
  /\ lists = refresh_mod_lists(FsUsed, "ascending")
  /\ running = TRUE
  /\ commits = 0
  /\ \E archive \in MetaArchives, target \in InstallTarget,
        version \in MetaVersions, notes \in MetaNotes :
       \E r \in {prepare_pending_install((NewlineZip :> FileNode(ZipOne)) @@ FsUsed,
                                          archive, 0, NoFault, NoFault,
                                          "ascending", "ok")} :
         /\ fs = r.fs
         /\ pending_install
              = Some([r.pending[1] EXCEPT !.install_target = target,
                                          !.custom_name = <<"n","e","w">>,
                                          !.version = version,
                                          !.notes = notes])
  /\ call = [op |-> "edit", pending |-> None, fs |-> fs, prev |-> "other",
             files |-> <<>>, order |-> ""]
  /\ pending_uninstall = None

MetaNext == ClickInstall

MetaSpec == MetaInit /\ [][MetaNext]_vars

(***************************************************************************)
(* InputSpec: the commit or the cancellation of an archive install whose   *)
(* name is an ordinary one or an absolute path that leads through a        *)
(* directory that does not exist back to a directory that exists, the one  *)
(* of the dropped archive or the one for temporary files.  It starts where the drop and the edits of the form have led.  *)
(***************************************************************************)
InputArchives == {PackZip, LooseZip, OneZip}

\* the last name leads the same way to the directory for temporary files
InputNames ==
  { <<"n","e","w">>, <<"/","x","/",".",".","/","i","n">>,
    <<"/","x","/",".",".","/","t">> }

InputInit ==
  /\ mods_root_input = ModsRootText
  /\ status = Some(StatusMessage("Info", "Archive extracted"))
  /\ NoWatcher
  /\ lists = refresh_mod_lists(FsUsed, "ascending")
  /\ running = TRUE
  /\ commits = 0
  /\ \E archive \in InputArchives, target \in InstallTarget, name \in InputNames :
       \E r \in {prepare_pending_install(FsUsed, archive, 0, NoFault, NoFault,
                                          "ascending", "ok")} :
         /\ fs = r.fs
         /\ pending_install
              = Some([r.pending[1] EXCEPT !.install_target = target,
                                          !.custom_name = name])
  /\ call = [op |-> "edit", pending |-> None, fs |-> fs, prev |-> "other",
             files |-> <<>>, order |-> ""]
  /\ pending_uninstall = None

InputNext ==
  \/ ClickInstall
  \/ ClickCancel

InputSpec == InputInit /\ [][InputNext]_vars

(***************************************************************************)
(* UninstallSpec: the list of installed mods with its Uninstall buttons    *)
(* and the "Confirm uninstall" window, the Refresh button, and another     *)
(* program that creates and removes tracks/New, so that the lists and the  *)
(* entry of the window can be out of date.  The history call of these      *)
(* steps keeps the entry of the window and the lists before the step.      *)
(***************************************************************************)
\* the step op of the uninstall user interface, from the current state
UninstallStep(op) ==
  call' = [op |-> op, pending |-> pending_install, fs |-> fs,
           prev |-> PrevOf(call.op), files |-> <<>>, order |-> "",
           entry |-> pending_uninstall, lists |-> lists]

\* an Uninstall button that removes the mod at once
ClickUninstallAtOnce ==
  /\ running
  /\ \E t \in InstallTarget : \E i \in DOMAIN lists[t], mode \in RemoveModes :
       \E u \in {uninstall_mod(fs, lists[t][i], mode)} :
         /\ status' = Some(u.status)
         /\ fs' = u.fs
         /\ \E order \in ListingOrders :
              lists' = IF u.ok THEN refresh_mod_lists(u.fs, order) ELSE lists
  /\ pending_uninstall' = None
  /\ UninstallStep("uninstall_click")
  /\ UNCHANGED <<mods_root_input, pending_install, running, commits>>
  /\ UNCHANGED watch

\* an Uninstall button of draw_mod_list is clicked: the entry becomes the
\* entry of the confirmation window
ClickUninstall ==
  /\ running
  /\ \E t \in InstallTarget : \E i \in DOMAIN lists[t] :
       pending_uninstall' = Some(lists[t][i])
  /\ UninstallStep("uninstall_click")
  /\ UNCHANGED <<mods_root_input, status, lists, pending_install, fs, running,
                 commits>>
  /\ UNCHANGED watch

\* the Delete button of the confirmation window
ClickDelete ==
  /\ running
  /\ pending_uninstall # None
  /\ \E mode \in RemoveModes :
       \E u \in {uninstall_mod(fs, pending_uninstall[1], mode)} :
         /\ status' = Some(u.status)
         /\ fs' = u.fs
         /\ \E order \in ListingOrders :
              lists' = IF u.ok THEN refresh_mod_lists(u.fs, order) ELSE lists
  /\ pending_uninstall' = None
  /\ UninstallStep("uninstall_mod")
  /\ UNCHANGED <<mods_root_input, pending_install, running, commits>>
  /\ UNCHANGED watch

\* the Cancel button of the confirmation window
ClickKeep ==
  /\ running
  /\ pending_uninstall # None
  /\ pending_uninstall' = None
  /\ UninstallStep("uninstall_cancel")
  /\ UNCHANGED <<mods_root_input, status, lists, pending_install, fs, running,
                 commits>>
  /\ UNCHANGED watch

UninstallNext ==
  \/ ClickUninstall
  \/ ClickDelete
  \/ ClickKeep
  \/ ClickRefresh
  \/ ExternalChange

UninstallSpec == Init /\ [][UninstallNext]_vars

(***************************************************************************)
(* InventorySpec: commits and uninstalls in one run.  It starts with the   *)
(* archive P.zip staged for tracks or rider/riders/paints; the commit, the *)
(* Cancel button and the buttons of the uninstall user interface follow in *)
(* any order.                                                              *)
(***************************************************************************)
InventoryInit ==
  /\ mods_root_input = ModsRootText
  /\ status = Some(StatusMessage("Info", "Archive extracted"))
  /\ NoWatcher
  /\ lists = refresh_mod_lists(FsUsed, "ascending")
  /\ running = TRUE
  /\ commits = 0
  /\ \E target \in TargetChoices :
       \E r \in {prepare_pending_install(FsUsed, PackZip, 0, NoFault, NoFault,
                                          "ascending", "ok")} :
         /\ fs = r.fs
         /\ pending_install
              = Some([r.pending[1] EXCEPT !.install_target = target,
                                          !.custom_name = <<"n","e","w">>])
  /\ call = [op |-> "edit", pending |-> None, fs |-> fs, prev |-> "other",
             files |-> <<>>, order |-> ""]
  /\ pending_uninstall = None

InventoryNext ==
  \/ ClickInstall
  \/ ClickCancel
  \/ ClickUninstall
  \/ ClickDelete
  \/ ClickKeep

InventorySpec == InventoryInit /\ [][InventoryNext]_vars

(***************************************************************************)
(* Properties.  They read the history variable call: the handler that      *)
(* produced the current state, and the pending slot and filesystem that    *)
(* handler started from.                                                   *)
(***************************************************************************)
Committed == call.op = "install_pending"

StatusIs(kind, text) ==
  status # None /\ status[1].kind = kind /\ status[1].text = text

\* a text without any character that is not whitespace
Blank(text) == \A i \in 1..Len(text) : is_whitespace(text[i])

\* C1: for every kind of source, install_pending on a pending install whose
\* custom_name is empty or only whitespace reports the empty-name error and
\* leaves the same PendingInstall, with all its fields, in the pending slot.
C1_EmptyNameRejected ==
  Committed /\ Blank(call.pending[1].custom_name)
    => /\ StatusIs("Error", "Install name cannot be empty.")
       /\ pending_install = call.pending

C1_Witness ==
  /\ Committed
  /\ call.pending[1].custom_name = <<" ">>
  /\ call.pending[1].source.kind = "Pnt"
  /\ call.pending[1].version # <<>>
  /\ pending_install = call.pending

\* the pending install a commit started from, and the destination base/name
\* of an archive commit
Before == call.pending[1]

DestinationOf(pending) ==
  join(target_dir(pending.install_target), trim(pending.custom_name))

ArchiveCommit == Committed /\ Before.source.kind = "Zip"

\* C2: install_pending on an archive-sourced pending install whose
\* destination base/name already exists reports the already-exists error
\* and leaves the whole filesystem as it was before the call.
C2_ExistingDestinationUntouched ==
  /\ ArchiveCommit
  /\ ~Blank(Before.custom_name)
  /\ exists(call.fs, DestinationOf(Before))
  => /\ StatusIs("Error",
          "Destination already exists: {}. Choose another install name.")
     /\ fs = call.fs

\* what a scan of the category of target lists on filesystem f
ScanOf(f, target, order) ==
  read_mod_entries(f, target_dir(target), RefreshExclusions(target), order)

CopyFailure ==
  ArchiveCommit /\ StatusIs("Error", "Install failed while copying files")

\* C3: when an archive commit fails while copying, the destination
\* directory base/name it created no longer exists when install_pending
\* returns, and a scan of the category lists nothing the commit left
\* behind: it lists what it listed before the commit.
C3_NoPartialInstall ==
  CopyFailure
    => /\ ~exists(fs, DestinationOf(Before))
       /\ \A order \in ListingOrders :
            ScanOf(fs, Before.install_target, order)
              = ScanOf(call.fs, Before.install_target, order)

\* the destination of a commit: base/name for an archive, base/name with
\* the extension of the package kind for a .pkz or .pnt file
CommitDestination(pending) ==
  IF pending.source.kind = "Zip" THEN DestinationOf(pending)
  ELSE join(target_dir(pending.install_target),
            with_extension_if_missing(trim(pending.custom_name),
              IF pending.source.kind = "Pkz" THEN <<".","p","k","z">>
              ELSE <<".","p","n","t">>))

\* C4: a commit that ends at a failure gate (base directory creation,
\* destination exists, install folder creation, copy; any source kind)
\* leaves the PendingInstall it started from in the pending slot with every
\* field as it was; the slot is empty only after a commit that succeeded,
\* whose destination then exists.
C4_FailedGateKeepsPending ==
  Committed
    => /\ status # None
       /\ status[1].kind = "Error" => pending_install = call.pending
       /\ pending_install # call.pending
            => /\ pending_install = None
               /\ status[1].kind \in {"Success", "Info"}
               /\ exists(fs, CommitDestination(Before))
               /\ ~exists(call.fs, CommitDestination(Before))

C4_Witness ==
  /\ Committed
  /\ Before.source.kind = "Pkz"
  /\ StatusIs("Error", "Failed to create destination directory")
  /\ Before.version # <<>>
  /\ pending_install = call.pending

Dropped == call.op = "handle_dropped_files"

\* the extraction directories that exist
ExtractDirs(f) == Children(f, ExtractsBase)

\* C5: a drop that arrives while the pending slot is occupied leaves the
\* PendingInstall in the slot as it was, stages nothing and creates no
\* temporary extraction directory (the filesystem is as before the drop);
\* while the application runs there is at most one extraction directory,
\* the one of the pending install.
C5_DropWhilePendingIgnored ==
  /\ Dropped /\ call.pending # None
       => pending_install = call.pending /\ fs = call.fs
  /\ running
       => ExtractDirs(fs) \subseteq
            {pending_install[i].source.temp_extract_dir : i \in DOMAIN pending_install}

C5_Witness ==
  /\ Dropped
  /\ call.pending # None
  /\ Before.source.kind = "Zip"
  /\ Before.custom_name = <<>>
  /\ StatusIs("Info",
       "Finish or cancel the current pending install before dropping another file.")

CommitSucceeded == Committed /\ status # None /\ status[1].kind # "Error"

\* every file and directory of f is in g, unchanged
Keeps(f, g) == \A p \in DOMAIN f : p \in DOMAIN g /\ g[p] = f[p]

ArchiveCommitFailed ==
  ArchiveCommit /\ status # None /\ status[1].kind = "Error"

Exited == ~running /\ call.op = "exit"

\* C8: when the application shuts down while an archive-sourced install is
\* pending, the temporary extraction directory owned by that pending
\* install is deleted: it does not exist once the application has exited.
C8_ShutdownDeletesTempDir ==
  Exited /\ call.pending # None /\ Before.source.kind = "Zip"
    => ~exists(fs, Before.source.temp_extract_dir)

Canceled == call.op = "cancel"

\* a drop of at least one file right after a Cancel
DroppedAfterCancel ==
  /\ Dropped
  /\ call.prev = "cancel"
  /\ ~StatusIs("Info", "Pending install canceled.")

DefaultTarget(kind) == IF kind = "Pnt" THEN "RiderPaints" ELSE "Tracks"

\* a PendingInstall as staging makes it: the default install location of its
\* kind, no version, no notes, and for an archive an extraction directory of
\* its own, the only one there is
FreshlyStaged(pending, f) ==
  /\ pending.install_target = DefaultTarget(pending.source.kind)
  /\ pending.version = <<>>
  /\ pending.notes = <<>>
  /\ pending.source.kind = "Zip"
       => /\ is_dir(f, pending.source.temp_extract_dir)
          /\ ExtractDirs(f) = {pending.source.temp_extract_dir}

SidecarOf(pending) == Append(DestinationOf(pending), MetaFileName)

\* the sidecar of the install is not there or does not hold its four lines
SidecarNotWritten(f, pending) ==
  \/ ~is_file(f, SidecarOf(pending))
  \/ f[Resolve(f, SidecarOf(pending)).path].data
       # metadata_text(pending.install_target, pending.version, pending.notes,
                       pending.source.input)

\* every directory and file below source in f is at the same relative path
\* below destination in g, a directory as a directory and a file as a file
\* with the same content; at the path of the sidecar, which the metadata
\* write creates or truncates, the content is not compared
CopiedTo(f, g, source, destination) ==
  \A q \in Below(f, source) :
    \E t \in {destination \o SubSeq(q, Len(source) + 1, Len(q))} :
      /\ exists(g, t)
      /\ g[Resolve(g, t).path].dir = f[q].dir
      /\ t # Append(destination, MetaFileName)
           => g[Resolve(g, t).path] = f[q]

\* the commit of an archive install made its destination and left it, but
\* not with a written sidecar
InstalledWithoutSidecar ==
  /\ ArchiveCommit
  /\ ~exists(call.fs, DestinationOf(Before))
  /\ is_dir(fs, DestinationOf(Before))
  /\ SidecarNotWritten(fs, Before)

Staged == Dropped /\ call.pending = None /\ pending_install # None

After == pending_install[1]

ArchiveStaged == Staged /\ After.source.kind = "Zip"

\* the top-level entries of the extracted tree of pending install p
TopLevel(f, p) == Children(f, p.source.temp_extract_dir)

\* C11: the default install name of a staged archive is the name of the
\* single top-level entry of its extracted tree when there is exactly one
\* and it is a directory, and the file stem of the archive in every other
\* case (several entries, a single file, no entry).
C11_DefaultNameOfArchive ==
  ArchiveStaged
    => IF Cardinality(TopLevel(fs, After)) = 1
          /\ \A q \in TopLevel(fs, After) : fs[q].dir
       THEN \A q \in TopLevel(fs, After) : After.custom_name = q[Len(q)]
       ELSE After.custom_name = file_stem(After.source.input)

C11_Witness ==
  /\ ArchiveStaged
  /\ After.source.input = OneZip
  /\ Cardinality(TopLevel(fs, After)) = 1
  /\ After.custom_name = <<"O">>

\* the effective copy source of pending install p: the single top-level
\* entry of the extracted tree when it is a directory, the tree otherwise
EffectiveSource(f, p) ==
  IF Cardinality(TopLevel(f, p)) = 1 /\ \A q \in TopLevel(f, p) : f[q].dir
  THEN CHOOSE q \in TopLevel(f, p) : TRUE
  ELSE p.source.temp_extract_dir

ArchiveInstalled == ArchiveCommit /\ StatusIs("Success", "Installed mod to")

\* the sidecar of pending install p is a file that holds its four lines
SidecarWritten(f, p) ==
  /\ is_file(f, SidecarOf(p))
  /\ ~SidecarNotWritten(f, p)

DroppedOne ==
  /\ Dropped
  /\ call.pending = None
  /\ Len(call.files) = 1
  /\ call.files[1] # None

DroppedPath == call.files[1][1]

\* the extension of path is ext, ignoring case
HasExtension(path, ext) ==
  extension(path) # NoText /\ to_lowercase(extension(path)) = ext

Zip == <<"z","i","p">>
Pkz == <<"p","k","z">>
Pnt == <<"p","n","t">>

\* C16: a drop of a single file whose extension is none of zip, pkz, pnt
\* (ignoring case), or that has no extension, is answered with the
\* unsupported-type error; the pending slot stays empty and the filesystem
\* is as it was (no extraction directory, no change in the mods tree).
C16_UnsupportedHasNoEffect ==
  DroppedOne /\ (\A ext \in {Zip, Pkz, Pnt} : ~HasExtension(DroppedPath, ext))
    => /\ StatusIs("Error", "Unsupported file type.")
       /\ pending_install = None
       /\ fs = call.fs

C16_Witness ==
  /\ DroppedOne
  /\ DroppedPath = NoExtension
  /\ StatusIs("Error", "Unsupported file type.")

\* C17: a drop of one existing file whose extension is pkz, ignoring case,
\* leaves a Pkz pending install with install location Tracks; one whose
\* extension is pnt leaves a Pnt pending install with install location
\* RiderPaints; in both the name is the file stem, notes and version are
\* empty, and the filesystem is as it was (no temporary directory).
C17_SingleFileStaging ==
  \A ext \in {Pkz, Pnt} :
    DroppedOne /\ HasExtension(DroppedPath, ext) /\ exists(call.fs, DroppedPath)
      => /\ pending_install # None
         /\ After.source.kind = (IF ext = Pkz THEN "Pkz" ELSE "Pnt")
         /\ After.source.input = DroppedPath
         /\ After.install_target = (IF ext = Pkz THEN "Tracks" ELSE "RiderPaints")
         /\ After.custom_name = file_stem(DroppedPath)
         /\ After.notes = <<>>
         /\ After.version = <<>>
         /\ fs = call.fs

C17_Witness ==
  /\ DroppedOne
  /\ DroppedPath = SkinPnt
  /\ pending_install # None
  /\ After.source.kind = "Pnt"
  /\ After.custom_name = <<"s","k","i","n">>

\* f and g hold the same files and directories, the directory base aside
SameBut(f, g, base) ==
  /\ Keeps(f, g)
  /\ \A p \in DOMAIN g : p \in DOMAIN f \/ p = base

C19_SeveralFilesRejected ==
  Dropped /\ call.pending = None /\ Len(call.files) >= 2
    => /\ pending_install = None
       /\ fs = call.fs
       /\ StatusIs("Error", "Drop exactly one file at a time.")

C19_Witness ==
  /\ Dropped
  /\ call.files = <<Some(PackZip), Some(CoolPkz)>>
  /\ StatusIs("Error", "Drop exactly one file at a time.")
  /\ pending_install = None

\* the install name at hand: the one in the slot, or the one the last
\* commit took out of it
NameAtHand ==
  IF pending_install # None THEN trim(pending_install[1].custom_name)
  ELSE trim(Before.custom_name)

DotPkz == <<".","p","k","z">>
DotPnt == <<".","p","n","t">>

FileCommitted == Committed /\ StatusIs("Success", "Installed mod file to")

\* C13: for every name and for the extensions .pkz and .pnt,
\* with_extension_if_missing(name, ext) ends with ext ignoring case, is name
\* itself when name already ends with ext ignoring case, and applied twice
\* gives what it gives applied once; a committed single-file install lies
\* at base/with_extension_if_missing(name, ext), so that the names c and
\* c.pkz of a package both commit to c.pkz.
C13_ExtensionAppendIdempotent ==
  /\ \A ext \in {DotPkz, DotPnt} :
       /\ ends_with(to_lowercase(with_extension_if_missing(NameAtHand, ext)), ext)
       /\ ends_with(to_lowercase(NameAtHand), ext)
            => with_extension_if_missing(NameAtHand, ext) = NameAtHand
       /\ with_extension_if_missing(with_extension_if_missing(NameAtHand, ext), ext)
            = with_extension_if_missing(NameAtHand, ext)
  /\ FileCommitted
       => /\ is_file(fs, CommitDestination(Before))
          /\ ~exists(call.fs, CommitDestination(Before))
          /\ Before.source.kind = "Pkz"
               /\ NameAtHand \in {<<"c">>, <<"c",".","p","k","z">>}
               => is_file(fs, Append(target_dir(Before.install_target),
                                     <<"c",".","p","k","z">>))

C13_Witness ==
  /\ FileCommitted
  /\ Before.source.kind = "Pkz"
  /\ NameAtHand = <<"c",".","p","K","z">>
  /\ is_file(fs, Append(Tracks, <<"c",".","p","K","z">>))

AfterRefresh == call.op = "refresh"

NamesOf(entries) == {entries[i].name : i \in DOMAIN entries}

\* the child at resolved path q belongs to the list of install target t
Listed(f, q, t) ==
  \/ /\ f[q].dir
     /\ \A x \in RefreshExclusions(t) : to_lowercase(x) # to_lowercase(q[Len(q)])
  \/ /\ ~f[q].dir
     /\ HasExtension(q, Pkz) \/ HasExtension(q, Pnt)

\* C14: after a refresh the list of every install target holds exactly the
\* immediate children of its directory that are a directory whose name
\* matches no excluded name ignoring case, or a file with the extension pkz
\* or pnt ignoring case, each once and with its path; it is empty for a
\* directory that does not exist or is no directory.
C14_ScanListsExactlyTheMods ==
  AfterRefresh
    => \A t \in InstallTarget :
         IF ~is_dir(fs, target_dir(t)) THEN lists[t] = <<>>
         ELSE /\ NamesOf(lists[t])
                   = {q[Len(q)] : q \in {c \in Children(fs, target_dir(t)) :
                                           Listed(fs, c, t)}}
              /\ Len(lists[t]) = Cardinality(NamesOf(lists[t]))
              /\ \A i \in DOMAIN lists[t] :
                   lists[t][i].path = Append(target_dir(t), lists[t][i].name)

C14_Witness ==
  /\ AfterRefresh
  /\ NamesOf(lists["RiderModels"])
       = {<<"b">>, <<"C">>, <<"d",".","t","x","t">>, <<"m",".","P","K","Z">>}
  /\ is_dir(fs, Append(Riders, <<"P","a","i","n","t","s">>))
  /\ is_file(fs, Append(Riders, <<"s",".","t","x","t">>))

KeyOf(entry) == to_lowercase(entry.name)

\* the names of the children of the directory of install target t in the
\* order the refresh read them
ListingOf(t) == read_dir(fs, target_dir(t), call.order).names

\* C15: after a refresh every list is sorted ascending by lowercased name,
\* whatever the order of the directory listing, and two entries with the
\* same lowercased name stand in the order the listing gave them.
C15_ScanSortedAndStable ==
  AfterRefresh
    => \A t \in InstallTarget :
         \A i, j \in DOMAIN lists[t] :
           i < j
             => /\ ~TextLess(KeyOf(lists[t][j]), KeyOf(lists[t][i]))
                /\ KeyOf(lists[t][i]) = KeyOf(lists[t][j])
                     => IndexIn(ListingOf(t), lists[t][i].name)
                          < IndexIn(ListingOf(t), lists[t][j].name)

C15_Witness ==
  /\ AfterRefresh
  /\ call.order = "descending"
  /\ [i \in DOMAIN lists["RiderModels"] |-> lists["RiderModels"][i].name]
       = << <<"b">>, <<"B">>, <<"C">>, <<"n",".","p","n","t">> >>

Polling == poll.pc = "loop"

\* process_fs_events has returned and nothing but sends came after
Polled == call.op = "process_fs_events" /\ ~Polling

\* C20: a call of process_fs_events never blocks (while it is in its loop,
\* try_recv returns a notification or Empty, so its next step can always be
\* taken), it receives every notification that
\* was queued when it began (none is skipped while it runs, and at its end
\* it has received at least that many), and it calls refresh_mod_lists at
\* most once: once when it received a change notification, then the lists
\* are those of the filesystem, and not at all otherwise; whatever the
\* watcher thread sends in between.
C20_PollDrainsAndRescansOnce ==
  /\ Polling => TryRecvOk \/ TryRecvEmpty
  /\ Polling /\ fs_watcher # None => poll.received + Len(rx) >= poll.queued
  /\ ~Polling => poll.received >= poll.queued
  /\ poll.rescans <= 1
  /\ Polled
       => /\ poll.rescans = 1 <=> poll.should_refresh
          /\ poll.rescans = 1
               => \E order \in ListingOrders : lists = refresh_mod_lists(fs, order)

C20_Witness ==
  /\ Polled
  /\ poll.queued = 1
  /\ poll.received = 2
  /\ poll.rescans = 1
  /\ NewTrack \in DOMAIN fs
  /\ \E i \in DOMAIN lists["Tracks"] : lists["Tracks"][i].name = <<"N","e","w">>

\* create_temp_extract_dir has returned
TempCalled == call.op = "create_temp_extract_dir"

\* every candidate name of the call exists in filesystem f
AllTaken(f) == \A a \in Attempts : exists(f, Candidate(call.now_nanos, a))

\* C21: a call of create_temp_extract_dir returns after at most 1000
\* candidate names (attempts 0..999 of one process id and timestamp): a
\* directory it returns is the first candidate that did not exist, and
\* when every candidate existed it returns the error "Failed to create a
\* unique extraction directory.", which no other failure of it gives, and
\* leaves the filesystem as it was.
C21_TempDirRetriesBounded ==
  TempCalled
    => /\ call.result.ok
            => \E a \in Attempts :
                 /\ call.result.dir = Candidate(call.now_nanos, a)
                 /\ ~exists(call.fs, Candidate(call.now_nanos, a))
                 /\ \A b \in 0..(a - 1) : exists(call.fs, Candidate(call.now_nanos, b))
       /\ AllTaken(call.fs)
            => ~call.result.ok /\ call.result.err = NoUniqueDir /\ fs = call.fs
       /\ ~call.result.ok /\ call.result.err = NoUniqueDir => AllTaken(call.fs)

C21_Witness ==
  /\ TempCalled
  /\ AllTaken(call.fs)
  /\ call.result.err = NoUniqueDir
  /\ call.earlier = {Candidate(0, MaxAttempts - 1)}

\* C22: a directory that create_temp_extract_dir returns did not exist
\* before the call and is an empty directory after it, and it is none of
\* the directories that earlier calls returned.
C22_TempDirFreshAndEmpty ==
  TempCalled /\ call.result.ok
    => /\ ~exists(call.fs, call.result.dir)
       /\ is_dir(fs, call.result.dir)
       /\ Below(fs, Resolve(fs, call.result.dir).path) = {}
       /\ call.result.dir \notin call.earlier

C22_Witness ==
  /\ TempCalled
  /\ call.result.ok
  /\ call.result.dir = Candidate(0, 3)
  /\ call.earlier = {Candidate(0, 2)}
  /\ Below(fs, Candidate(0, 0)) # {}

\* the commit of a .pkz or .pnt file
FileCommit == Committed /\ Before.source.kind \in {"Pkz", "Pnt"}

FileCopyFailed == FileCommit /\ StatusIs("Error", "Failed to install file")

\* C23: when the file copy of a .pkz or .pnt commit fails, nothing exists
\* at the destination base/(name with extension) when install_pending has
\* returned the error.
C23_FailedFileCopyCreatesNothing ==
  FileCopyFailed => ~exists(fs, CommitDestination(Before))

\* the paths of filesystem f at and below the mods root
UnderModsRoot(f) == {p \in DOMAIN f : is_prefix(mods_root, p)}

\* C24: a commit, of any source kind and whether it succeeds or fails,
\* leaves every file and directory that existed under the mods root before
\* it as it was; the commit of a .pkz or .pnt file whose destination
\* base/(name with extension) exists fails with the already-exists error
\* and changes nothing.
C24_NoClobbering ==
  /\ Committed
       => \A p \in UnderModsRoot(call.fs) : p \in DOMAIN fs /\ fs[p] = call.fs[p]
  /\ FileCommit /\ ~Blank(Before.custom_name)
       /\ exists(call.fs, CommitDestination(Before))
       => StatusIs("Error", "Destination already exists: {}.") /\ fs = call.fs

\* the directory of category child is an immediate child of the directory
\* of category t
ChildCategory(t, child) ==
  parent(Components(relative_path(child))) = Components(relative_path(t))

\* the pairs of a category and a category whose directory is an immediate
\* child of its directory
ChildCategories ==
  {pair \in InstallTarget \X InstallTarget : ChildCategory(pair[1], pair[2])}

CategoryPathsDistinct ==
  /\ Len(ALL_INSTALL_TARGETS) = 13
  /\ Cardinality(InstallTarget) = 13
  /\ Cardinality({relative_path(t) : t \in InstallTarget}) = 13
  /\ Cardinality({Components(relative_path(t)) : t \in InstallTarget}) = 13

ChildCategoriesExcluded ==
  \A pair \in ChildCategories :
    file_name(Components(relative_path(pair[2]))) \in excluded_subdirs(pair[1])

\* C25: the 13 install categories have 13 pairwise distinct relative
\* paths; the directory of a category is an immediate child of the
\* directory of another for Rider Paints and Rider Gloves (in Rider Models),
\* Rider Helmet Paints (in Rider Helmets) and Rider Boot Paints (in Rider
\* Boots), and there the excluded_subdirs of the parent category hold the
\* name of the child directory; no list of a category holds the directory
\* of a category as an entry.
C25_CategoriesDistinctAndExcluded ==
  /\ CategoryPathsDistinct
  /\ ChildCategoriesExcluded
  /\ ChildCategories
       = {<<"RiderModels", "RiderPaints">>, <<"RiderModels", "RiderGloves">>,
          <<"RiderHelmets", "RiderHelmetPaints">>,
          <<"RiderBoots", "RiderBootPaints">>}
  /\ \A t \in InstallTarget :
       \A i \in DOMAIN lists[t] :
         lists[t][i].path \notin {target_dir(child) : child \in InstallTarget}

\* a commit into Rider Paints has created rider/riders/paints, and the scan
\* that followed lists it under Rider Paints only
C25_Witness ==
  /\ CommitSucceeded
  /\ Before.install_target = "RiderPaints"
  /\ is_dir(fs, target_dir("RiderPaints"))
  /\ lists["RiderPaints"] # <<>>
  /\ lists["RiderModels"] = <<>>

\* a drop of one existing zip container on an empty slot
ArchiveDropped ==
  /\ DroppedOne
  /\ HasExtension(DroppedPath, Zip)
  /\ is_file(call.fs, DroppedPath)
  /\ ZipIndex(call.fs[Resolve(call.fs, DroppedPath).path].data).ok

\* the entries of the dropped archive whose stored name can be confined
Confined ==
  {i \in DOMAIN ArchiveEntries(call.fs, DroppedPath) :
     enclosed_name_is_some(ArchiveEntries(call.fs, DroppedPath)[i].name)}

StoredName(i) == ArchiveEntries(call.fs, DroppedPath)[i].name

\* C26: whatever extract_zip_archive creates lies inside its destination
\* directory: after the drop of an archive the only new paths are
\* mxbmm_extracts, the extraction directory and paths below the extraction
\* directory, and nothing that existed has changed.  An entry with an
\* absolute stored name or one that climbs out with .. is skipped: when
\* the archive is staged, the extraction directory holds every other entry
\* (a file with its content, a directory) and their directories, and
\* nothing else.
C26_ExtractionConfined ==
  ArchiveDropped
    => /\ Keeps(call.fs, fs)
       /\ IF pending_install = None
          THEN DOMAIN fs \ DOMAIN call.fs \subseteq {ExtractsBase}
          ELSE /\ \A p \in DOMAIN fs \ DOMAIN call.fs :
                    \/ p = ExtractsBase
                    \/ is_prefix(After.source.temp_extract_dir, p)
               /\ \A i \in Confined :
                    \E out \in {join(After.source.temp_extract_dir, StoredName(i))} :
                      IF ends_with(StoredName(i), <<Sep>>)
                      THEN is_dir(fs, out)
                      ELSE /\ is_file(fs, out)
                           /\ fs[out].data
                                = ArchiveEntries(call.fs, DroppedPath)[i].data
               /\ \A p \in Below(fs, After.source.temp_extract_dir) :
                    \E i \in Confined :
                      is_prefix(p, join(After.source.temp_extract_dir, StoredName(i)))

C26_Witness ==
  /\ ArchiveDropped
  /\ DroppedPath = LooseZip
  /\ pending_install # None
  /\ Cardinality(Confined) = 2
  /\ Len(ArchiveEntries(call.fs, DroppedPath)) = 4
  /\ Cardinality(Below(fs, After.source.temp_extract_dir)) = 2

\* the lines of a text: the pieces that end at each newline, and the rest
\* when the text does not end with a newline
RECURSIVE Lines(_)
Lines(text) ==
  IF text = <<>> THEN <<>>
  ELSE IF \E i \in DOMAIN text : text[i] = "\n"
  THEN LET i == CHOOSE j \in DOMAIN text :
                  text[j] = "\n" /\ \A k \in 1..(j - 1) : text[k] # "\n"
       IN <<SubSeq(text, 1, i - 1)>> \o Lines(SubSeq(text, i + 1, Len(text)))
  ELSE <<text>>

\* C27: the sidecar written by a successful archive commit consists of
\* exactly four lines: install_target= with the relative path of the
\* category of the commit, version= with the trimmed version, archive=
\* with the path of the archive, notes= with the notes, every newline of
\* them replaced by the two characters \ and n.
C27_SidecarFourLines ==
  ArchiveInstalled
    => /\ is_file(fs, SidecarOf(Before))
       /\ Lines(fs[Resolve(fs, SidecarOf(Before)).path].data)
            = << <<"i","n","s","t","a","l","l","_","t","a","r","g","e","t","=">>
                   \o relative_path(Before.install_target),
                 <<"v","e","r","s","i","o","n","=">> \o trim(Before.version),
                 <<"a","r","c","h","i","v","e","=">> \o display(Before.source.input),
                 <<"n","o","t","e","s","=">> \o replace_newlines(Before.notes) >>

\* uninstall_mod has returned; Target is the entry it was called with
Uninstalled == call.op = "uninstall_mod"

Target == call.entry[1]

\* C28: uninstall_mod changes nothing but the entry's path and what is
\* below it.  When it succeeds, the entry existed (a directory with
\* everything beneath it, or a file), nothing is left at or below its path,
\* the status is the success message and the lists are those of a scan of
\* the filesystem.  When it fails, the status is the error message and the
\* lists are as they were.
C28_UninstallRemovesTheEntryOnly ==
  Uninstalled
    => /\ DOMAIN fs \subseteq DOMAIN call.fs
       /\ \A p \in DOMAIN call.fs :
            ~is_prefix(Target.path, p) => p \in DOMAIN fs /\ fs[p] = call.fs[p]
       /\ IF StatusIs("Success", "Removed mod")
          THEN /\ exists(call.fs, Target.path)
               /\ \A p \in DOMAIN fs : ~is_prefix(Target.path, p)
               /\ \E order \in ListingOrders : lists = refresh_mod_lists(fs, order)
          ELSE /\ StatusIs("Error", "Failed to remove")
               /\ lists = call.lists

C28_Witness ==
  /\ Uninstalled
  /\ StatusIs("Success", "Removed mod")
  /\ Target.name = Pack
  /\ Below(call.fs, Target.path) # {}
  /\ lists["Tracks"] # <<>>
  /\ \A i \in DOMAIN lists["Tracks"] : lists["Tracks"][i].name # Pack

\* C29: a step removes or changes something under the mods root only when
\* it is a Delete click in the confirmation window, and then only at and
\* below the path of the entry of the window (another program aside);
\* uninstall_mod is called with the entry of the window; only an Uninstall
\* click puts an entry into pending_uninstall, one of the lists; a Cancel
\* click changes neither filesystem nor lists; after a Delete or Cancel
\* click pending_uninstall is empty.
C29_NoRemovalWithoutConfirmation ==
  [][/\ \A p \in UnderModsRoot(fs) :
          (p \notin DOMAIN fs' \/ fs'[p] # fs[p]) /\ call'.op # "external"
            => /\ call'.op = "uninstall_mod"
               /\ pending_uninstall # None
               /\ is_prefix(pending_uninstall[1].path, p)
     /\ call'.op = "uninstall_mod"
          => pending_uninstall # None /\ call'.entry = pending_uninstall
     /\ pending_uninstall' # None /\ pending_uninstall' # pending_uninstall
          => /\ call'.op = "uninstall_click"
             /\ \E t \in InstallTarget : \E i \in DOMAIN lists[t] :
                  pending_uninstall' = Some(lists[t][i])
     /\ call'.op = "uninstall_cancel" => fs' = fs /\ lists' = lists
     /\ call'.op \in {"uninstall_mod", "uninstall_cancel"}
          => pending_uninstall' = None]_vars

\* a Delete click removed cool.pkz, the entry an Uninstall click had put
\* into the window
C29_Witness ==
  /\ Uninstalled
  /\ StatusIs("Success", "Removed mod")
  /\ Target.name = <<"c","o","o","l",".","p","k","z">>
  /\ pending_uninstall = None
  /\ ~exists(fs, Target.path)

\* the commit was refused because its destination exists
DestinationExists ==
  \/ StatusIs("Error", "Destination already exists: {}. Choose another install name.")
  \/ StatusIs("Error", "Destination already exists: {}.")

BaseOf(pending) == target_dir(pending.install_target)

\* C30: a commit refused for its empty name leaves the whole filesystem as
\* it was, the base directory of the category is not created.  A commit
\* refused because its destination exists had a name that is not empty and
\* leaves every path that existed as it was; what it created is the base
\* directory of the category and directories above it, no file and no
\* directory anywhere else.
C30_GatesInOrder ==
  /\ Committed /\ StatusIs("Error", "Install name cannot be empty.")
       => fs = call.fs
  /\ Committed /\ DestinationExists
       => /\ ~Blank(Before.custom_name)
          /\ \A p \in DOMAIN call.fs : p \in DOMAIN fs /\ fs[p] = call.fs[p]
          /\ \A p \in DOMAIN fs \ DOMAIN call.fs :
               fs[p] = DirNode /\ is_prefix(p, BaseOf(Before))
          /\ is_dir(fs, BaseOf(Before))

\* the base directory was created, then the commit to the existing
\* destination was refused
C30_Witness ==
  /\ Committed /\ DestinationExists
  /\ ~exists(call.fs, BaseOf(Before))
  /\ is_dir(fs, BaseOf(Before))
  /\ pending_install = call.pending

\* the name under which the install of pending is to be listed
ListedName(pending) ==
  IF pending.source.kind = "Zip" THEN trim(pending.custom_name)
  ELSE with_extension_if_missing(trim(pending.custom_name),
         IF pending.source.kind = "Pkz" THEN DotPkz ELSE DotPnt)

\* C31: after every successful commit into a category with trimmed name N,
\* the list of that category holds an entry named N for an archive source,
\* and N with the required extension for a .pkz or .pnt source.
C31_InstallIsListed ==
  CommitSucceeded
    => \E i \in DOMAIN lists[Before.install_target] :
         lists[Before.install_target][i].name = ListedName(Before)

\* the paths a commit has created or changed
Written == {p \in DOMAIN fs : p \notin DOMAIN call.fs \/ fs[p] # call.fs[p]}

\* C32: for every install name that is not blank, a commit creates or
\* changes nothing but the directory of the chosen category, directories
\* above it and paths below it, and the destination a successful commit
\* has created is an immediate child of the directory of the category.
C32_DestinationIsChildOfCategory ==
  Committed /\ ~Blank(Before.custom_name)
    => /\ \A p \in Written :
            is_prefix(p, BaseOf(Before)) \/ is_prefix(BaseOf(Before), p)
       /\ CommitSucceeded
            => \E q \in Children(fs, BaseOf(Before)) :
                 /\ q \notin DOMAIN call.fs
                 /\ Resolve(fs, CommitDestination(Before)).path = q

\* the place below the destination of pending install p where the commit
\* copies source path q to
CopyOf(f, p, q) ==
  DestinationOf(p) \o SubSeq(q, Len(EffectiveSource(f, p)) + 1, Len(q))

\* C33: after a successful archive commit every file that was copied from
\* the extracted archive into the destination, one named _mxbmm_meta.txt at
\* the top level included, has the content of its source.
C33_SidecarChangesNoCopiedFile ==
  ArchiveInstalled
    => \A q \in Below(call.fs, EffectiveSource(call.fs, Before)) :
         ~call.fs[q].dir
           => /\ is_file(fs, CopyOf(call.fs, Before, q))
              /\ fs[Resolve(fs, CopyOf(call.fs, Before, q)).path].data
                   = call.fs[q].data

\* the input files of the operations so far that the state still names: the
\* one of the pending install, the one of the pending install the last
\* operation started from, and the files of the last drop
InputsAtHand ==
  (IF pending_install # None THEN {pending_install[1].source.input} ELSE {})
    \cup (IF call.pending # None THEN {call.pending[1].source.input} ELSE {})
    \cup {call.files[i][1] : i \in {j \in DOMAIN call.files : call.files[j] # None}}

\* C34: the input file of a staging, a commit (successful or failed) or a
\* cancellation is where it was, with the content it had.
C34_InputFileUntouched ==
  \A p \in InputsAtHand :
    p \in DOMAIN FsUsed => p \in DOMAIN fs /\ fs[p] = FsUsed[p]

\* what lies below directory d of filesystem f, by relative path
TreeAt(f, d) == {<<SubSeq(q, Len(d) + 1, Len(q)), f[q]>> : q \in Below(f, d)}

\* what the extraction of archive_path puts into its directory
ExtractedTree(archive_path) ==
  With(prepare_pending_install(FsUsed, archive_path, 0, NoFault, NoFault,
                               "ascending", "ok"),
       LAMBDA r : TreeAt(r.fs, r.pending[1].source.temp_extract_dir))

\* C35: in every state between two user actions, when the pending slot
\* holds an archive-sourced install, its temporary extraction directory
\* exists and holds what was extracted from the archive.
C35_PendingArchiveIsStaged ==
  pending_install # None /\ pending_install[1].source.kind = "Zip"
    => /\ is_dir(fs, pending_install[1].source.temp_extract_dir)
       /\ TreeAt(fs, pending_install[1].source.temp_extract_dir)
            = ExtractedTree(pending_install[1].source.input)

\* the default name staging gives the extracted tree a commit started from
StagedDefault ==
  guess_mod_name(call.fs, Before.source.temp_extract_dir, Before.source.input,
                 "ascending")

\* every entry below source in f has an entry of its kind at the same
\* relative path below destination in g
EntriesAt(f, g, source, destination) ==
  \A q \in Below(f, source) :
    \E t \in {destination \o SubSeq(q, Len(source) + 1, Len(q))} :
      exists(g, t) /\ g[Resolve(g, t).path].dir = f[q].dir

\* C36: a successful commit of an extracted tree that is as staging left it
\* has copied the content of the single top-level directory, and not that
\* directory itself, exactly when the default name of staging is the name
\* of that directory; it has copied the content of the tree as it is
\* exactly when the default name is the file stem of the archive.
C36_SameFlattenCriterion ==
  ArchiveInstalled
    => /\ TreeAt(call.fs, Before.source.temp_extract_dir)
            = ExtractedTree(Before.source.input)
       /\ IF StagedDefault # file_stem(Before.source.input)
          THEN /\ EffectiveSource(call.fs, Before)
                    = Append(Before.source.temp_extract_dir, StagedDefault)
               /\ EntriesAt(call.fs, fs, EffectiveSource(call.fs, Before),
                            DestinationOf(Before))
               /\ ~exists(fs, DestinationOf(Before) \o <<StagedDefault>>)
          ELSE /\ EffectiveSource(call.fs, Before) = Before.source.temp_extract_dir
               /\ EntriesAt(call.fs, fs, Before.source.temp_extract_dir,
                            DestinationOf(Before))

\* both cases at once are no state; this one is the flattened commit of
\* P.zip, staged as Pack, under another name
C36_Witness ==
  /\ ArchiveInstalled
  /\ Before.source.input = PackZip
  /\ StagedDefault = Pack
  /\ Before.custom_name = <<"a","/","b">>
  /\ is_file(fs, DestinationOf(Before) \o << <<"a",".","t","x","t">> >>)
  /\ ~exists(fs, DestinationOf(Before) \o <<Pack>>)

WatcherError ==
  StatusIs("Info", "File watcher event error: {}. Refresh may be needed.")

\* a change notification waits in the channel of the current watcher
ChangeQueued ==
  fs_watcher # None /\ \E i \in DOMAIN rx : rx[i] = "Ok"

\* process_fs_events has returned after a re-scan, with nothing left in the
\* channel
Rescanned == ~Polling /\ poll.rescans = 1 /\ Receivable = <<>>

\* C37: a poll that began with a change notification queued on the channel
\* of the current watcher has re-scanned when it returns, the lists are
\* those of the filesystem; a poll that received error values only has not
\* re-scanned and has set the Info status of the event error; and when
\* frames keep coming, a change notification in the channel is followed by
\* a re-scan.
C37_NotificationLeadsToRescan ==
  /\ [](Polled /\ poll.queued_ok
          => /\ poll.rescans = 1
             /\ \E order \in ListingOrders : lists = refresh_mod_lists(fs, order))
  /\ [](Polled /\ poll.event_error /\ ~poll.should_refresh
          => /\ poll.rescans = 0
             /\ ~poll.queued_ok
             /\ WatcherError)
  /\ (ChangeQueued ~> Rescanned)

\* the poll began with an error value and a change notification behind it
\* in the channel, and has re-scanned
C37_Witness ==
  /\ Polled
  /\ poll.queued = 2
  /\ poll.queued_ok
  /\ poll.event_error
  /\ poll.rescans = 1
  /\ WatcherError

\* the list of category t is what a scan of its directory under the mods
\* root gives now, with the exclusion set of the category
FreshScan(t) ==
  \E order \in ListingOrders :
    lists[t] = read_mod_entries(fs, join(mods_root, relative_path(t)),
                                excluded_subdirs(t), order)

UninstallSucceeded == Uninstalled /\ StatusIs("Success", "Removed mod")

\* C38: after a successful commit and after a successful uninstall the list
\* of every category equals a fresh scan of the directory of the category
\* with its exclusion set; a step that is a failed commit or a failed
\* uninstall leaves the lists as they were.
C38_ListsFollowTheFilesystem ==
  /\ [](CommitSucceeded \/ UninstallSucceeded
          => \A t \in InstallTarget : FreshScan(t))
  /\ [][/\ commits' = commits + 1 /\ status'[1].kind = "Error"
             => lists' = lists
        /\ (/\ call'.op = "uninstall_mod"
            /\ pending_uninstall # None
            /\ status' = Some(StatusMessage("Error", "Failed to remove")))
             => lists' = lists]_vars

\* the mod a commit had installed and listed was uninstalled again
C38_Witness ==
  /\ UninstallSucceeded
  /\ commits = 1
  /\ Target.name = <<"n","e","w">>
  /\ Target.path = Append(target_dir("RiderPaints"), <<"n","e","w">>)
  /\ lists["RiderPaints"] = <<>>
  /\ lists["Tracks"] # <<>>

\* sync_fs_watcher has run and the text of the mods root is as it was then
Synced == Polling \/ call.op = "refresh"

\* the step is a call of sync_fs_watcher: the beginning of a frame, or the
\* Refresh button
SyncStep ==
  \/ poll.pc = "idle" /\ poll'.pc = "loop"
  \/ call'.op = "refresh" /\ call.op # "refresh"

\* C39: after a call of sync_fs_watcher the watcher slot is empty or holds
\* a watcher whose root is the trimmed mods root; the call keeps a watcher
\* of that root as it is, with the notifications in its channel, and drops
\* a watcher of another root: the slot is then empty, or holds a new
\* watcher of the mods root with an empty channel, and it is empty when the
\* mods root does not exist.
C39_WatcherFollowsRoot ==
  /\ [](Synced => fs_watcher = None \/ fs_watcher[1].root = mods_root)
  /\ [][SyncStep /\ fs_watcher # None
          => IF fs_watcher[1].root = mods_root
             THEN fs_watcher' = fs_watcher
             ELSE /\ fs_watcher' # fs_watcher
                  /\ fs_watcher' = None
                       \/ fs_watcher' = Some(FsWatcherState(mods_root))
                  /\ ~exists(fs, mods_root) => fs_watcher' = None]_vars

\* a frame began after the root was changed to a directory that does not
\* exist: no watcher is left
C39_Witness ==
  /\ Polling
  /\ mods_root_input = <<"/","n","o">>
  /\ fs_watcher = None
  /\ poll.queued = 0
  /\ call.op = "edit"

\* refresh_mod_lists has 13 scans, one for each install target, each into a
\* field of its own
ScansEachOnce ==
  /\ Len(RefreshScans) = 13
  /\ \A t \in InstallTarget :
       Cardinality({i \in DOMAIN RefreshScans : RefreshScans[i].target = t}) = 1
  /\ \A i, j \in DOMAIN RefreshScans :
       RefreshScans[i].field = RefreshScans[j].field => i = j

\* the exclusion list of every scan is excluded_subdirs of its target
ExclusionsAgree ==
  \A i \in DOMAIN RefreshScans :
    /\ RefreshScans[i].excluded = excluded_subdirs(RefreshScans[i].target)
    /\ RefreshScans[i].excluded = RefreshExclusions(RefreshScans[i].target)

ExclusionsAsStated ==
  \A t \in InstallTarget :
    excluded_subdirs(t) = CASE t = "RiderModels" -> {Paints, Gloves}
                            [] t \in {"RiderHelmets", "RiderBoots"} -> {Paints}
                            [] OTHER -> {}

\* C40: refresh_mod_lists scans each of the 13 categories once, the
\* exclusion list of each scan is excluded_subdirs of the category (paints
\* and gloves for RiderModels, paints for RiderHelmets and RiderBoots,
\* nothing for the others), and after a refresh the list of every category
\* is the scan of root joined with relative_path of the category with that
\* exclusion list.
C40_RefreshUsesExcludedSubdirs ==
  /\ ScansEachOnce
  /\ ExclusionsAgree
  /\ ExclusionsAsStated
  /\ call.op = "refresh"
       => \A t \in InstallTarget :
            lists[t] = read_mod_entries(fs, join(mods_root, relative_path(t)),
                                        excluded_subdirs(t), call.order)

\* a refresh of Rider Models that left out the directory Paints and listed
\* the others
C40_Witness ==
  /\ call.op = "refresh"
  /\ is_dir(fs, Append(Riders, <<"P","a","i","n","t","s">>))
  /\ is_dir(fs, Append(Riders, <<"b">>))
  /\ Len(lists["RiderModels"]) = 1
  /\ lists["RiderModels"][1].name = <<"b">>
  /\ Len(lists["Tracks"]) = 3
====
